---- MODULE Spec2Model ----
(***************************************************************************)
(* Model of the secret provisioning of scripts/deploy_stack.py:            *)
(* create_env_from_template reads .env.example, substitutes placeholder    *)
(* values by generated secrets, reconciles the MLflow admin credentials    *)
(* and writes .env; check_env_file decides whether .env must be            *)
(* (re)generated.                                                          *)
(*                                                                         *)
(* Spec      one call of create_env_from_template in a directory without   *)
(*           .env;                                                         *)
(* CheckSpec successive runs of check_env_file on an existing or missing   *)
(*           .env;                                                         *)
(* FaultSpec the same with file operations that may raise;                 *)
(* GenSpec   calls of the three secret generators;                         *)
(* RaceSpec  two processes running check_env_file on the same directory;   *)
(* MainSpec  main: prerequisites, .env, deployment and validation;         *)
(* ManagerSpec calls on one MLflowUserManager (manage_mlflow_users.py);    *)
(* SetupSpec the interactive workflow of setup_mlflow_auth.py.             *)
(*                                                                         *)
(* Files are flat character strings, lines are strings that keep their     *)
(* trailing newline, exactly as Python's readlines/writelines see them.    *)
(* The operating system's entropy source is a stream of draws chosen       *)
(* nondeterministically among Seeds; every generator call consumes the     *)
(* draws it needs from the current position of the stream.                 *)
(***************************************************************************)
EXTENDS Integers, Sequences, FiniteSets, TLC

(***************************************************************************)
(* Bounds of the model.                                                    *)
(***************************************************************************)
\* largest number of lines of a template file
MaxLines == 2

(***************************************************************************)
(* Python string primitives.                                               *)
(***************************************************************************)
\* s[i] (1-based) as a one-character string
CharAt(s, i) == SubSeq(s, i, i)

\* str.startswith
startswith(s, prefix) ==
  /\ Len(prefix) <= Len(s)
  /\ SubSeq(s, 1, Len(prefix)) = prefix

\* the `in` operator on strings: sub occurs somewhere in s
contains(s, sub) ==
  \E i \in 1..(Len(s) - Len(sub) + 1) : SubSeq(s, i, i + Len(sub) - 1) = sub

\* the one element of a singleton set; the({ f(x) : x \in {e} }) is f(e) with e
\* evaluated once
the(S) == CHOOSE x \in S : TRUE

\* the least element of a non-empty set of integers
Min(S) == CHOOSE i \in S : \A j \in S : i <= j

\* str.find(sub, start), 1-based: the first position >= start at which sub
\* occurs in s, 0 when there is none
find(s, sub, start) ==
  the({ IF found = {} THEN 0 ELSE Min(found)
        : found \in { { i \in start..(Len(s) - Len(sub) + 1) :
                          SubSeq(s, i, i + Len(sub) - 1) = sub } } })

\* the characters str.strip() removes
Whitespace == {" ", "\t", "\n", "\r", "\f"}

\* the number of characters of chars at the start and at the end of s
leading(s, chars) ==
  CHOOSE n \in 0..Len(s) :
    /\ \A i \in 1..n : CharAt(s, i) \in chars
    /\ n < Len(s) => CharAt(s, n + 1) \notin chars

trailing(s, chars) ==
  CHOOSE n \in 0..Len(s) :
    /\ \A i \in 1..n : CharAt(s, Len(s) + 1 - i) \in chars
    /\ n < Len(s) => CharAt(s, Len(s) - n) \notin chars

\* str.strip(): s without its leading and trailing whitespace
strip(s) ==
  IF leading(s, Whitespace) = Len(s) THEN ""
  ELSE SubSeq(s, leading(s, Whitespace) + 1, Len(s) - trailing(s, Whitespace))

\* a variant of rstrip_newline: value = parts[1].rstrip()
rstrip_newline_any_whitespace(s) == SubSeq(s, 1, Len(s) - trailing(s, Whitespace))

\* str.rstrip('\n')
rstrip_newline(s) == SubSeq(s, 1, Len(s) - trailing(s, {"\n"}))

\* str.replace(old, new): every non-overlapping occurrence, left to right
RECURSIVE replace_from(_, _, _, _)
replace_from(s, old, new, start) ==
  the({ IF i = 0 THEN SubSeq(s, start, Len(s))
        ELSE SubSeq(s, start, i - 1) \o new \o replace_from(s, old, new, i + Len(old))
        : i \in { find(s, old, start) } })

replace(s, old, new) == replace_from(s, old, new, 1)

\* s.split('=', 1)[0] and s.split('=', 1)[1], for s containing '='
split_key(s) == SubSeq(s, 1, find(s, "=", 1) - 1)
split_value(s) == SubSeq(s, find(s, "=", 1) + 1, Len(s))

\* f.readlines(): the content cut after every newline
RECURSIVE readlines_from(_, _)
readlines_from(content, start) ==
  IF start > Len(content) THEN << >>
  ELSE the({ IF i = 0 THEN << SubSeq(content, start, Len(content)) >>
             ELSE << SubSeq(content, start, i) >> \o readlines_from(content, i + 1)
             : i \in { find(content, "\n", start) } })

readlines(content) == readlines_from(content, 1)

\* f.writelines(lines) on a file opened with 'w': the concatenation
RECURSIVE writelines(_)
writelines(ls) ==
  IF ls = << >> THEN "" ELSE Head(ls) \o writelines(Tail(ls))

(***************************************************************************)
(* The secret generators (deploy_stack.py 52-63).                          *)
(***************************************************************************)
\* string.ascii_letters + string.digits
characters == "abcdefghijklmnopqrstuvwxyzABCDEFGHIJKLMNOPQRSTUVWXYZ0123456789"

HexDigits == "0123456789abcdef"

\* the k-th draw (k >= 0) of the entropy stream `seed` read from position pos
Draw(seed, pos, k) == seed[((pos + k) % Len(seed)) + 1]

\* secrets.choice(characters): one draw selects one character
choice(seed, pos) == CharAt(characters, (Draw(seed, pos, 0) % Len(characters)) + 1)

\* a variant of generate_secure_password: range(length + 1)
RECURSIVE generate_secure_password_one_more(_, _, _)
generate_secure_password_one_more(seed, pos, length) ==
  IF length < 0 THEN ""
  ELSE the({ choice(seed, pos) \o generate_secure_password_one_more(seed, next, rest)
             : << next, rest >> \in { << pos + 1, length - 1 >> } })

\* ''.join(secrets.choice(characters) for _ in range(length))
RECURSIVE generate_secure_password(_, _, _)
generate_secure_password(seed, pos, length) ==
  IF length <= 0 THEN ""
  ELSE the({ choice(seed, pos) \o generate_secure_password(seed, next, rest)
             : << next, rest >> \in { << pos + 1, length - 1 >> } })

\* one random byte printed as two lowercase hexadecimal digits
hex_byte(b) == CharAt(HexDigits, (b \div 16) + 1) \o CharAt(HexDigits, (b % 16) + 1)

\* secrets.token_hex(nbytes)
RECURSIVE token_hex(_, _, _)
token_hex(seed, pos, nbytes) ==
  IF nbytes <= 0 THEN ""
  ELSE the({ hex_byte(Draw(seed, pos, 0) % 256) \o token_hex(seed, next, rest)
             : << next, rest >> \in { << pos + 1, nbytes - 1 >> } })

generate_secret_key(seed, pos, length) == token_hex(seed, pos, length \div 2)

\* a variant of generate_salt: secrets.token_hex(32)
generate_salt_32_bytes(seed, pos) == token_hex(seed, pos, 32)

generate_salt(seed, pos) == token_hex(seed, pos, 16)

(***************************************************************************)
(* create_env_from_template: the placeholder pass (deploy_stack.py 90-156).*)
(***************************************************************************)
\* the keys of the replacements dict (93-103) in insertion order, each with
\* the generator call that computes its value
PlaceholderTable == <<
  [placeholder |-> "change_me_with_a_secure_key", gen |-> "secret_key", length |-> 64],
  [placeholder |-> "change_me_on_first_login", gen |-> "password", length |-> 20],
  [placeholder |-> "change_me_with_a_secure_secret", gen |-> "secret_key", length |-> 64],
  [placeholder |-> "change_me_with_a_secure_salt", gen |-> "salt", length |-> 32],
  [placeholder |-> "change_me_with_64_char_hex_key_generate_via_openssl_rand_hex_32",
   gen |-> "secret_key", length |-> 64],
  [placeholder |-> "change_me_langfuse_password", gen |-> "password", length |-> 20],
  [placeholder |-> "change_me_clickhouse_password", gen |-> "password", length |-> 20],
  [placeholder |-> "change_me_minio_password", gen |-> "password", length |-> 20],
  [placeholder |-> "change_me_redis_password", gen |-> "password", length |-> 20] >>

\* the keys of the value_replacements dict (137-144) in insertion order
DefaultValueTable == <<
  [placeholder |-> "mysecret", gen |-> "secret_key", length |-> 32],
  [placeholder |-> "mysalt", gen |-> "salt", length |-> 32],
  [placeholder |-> "miniosecret", gen |-> "password", length |-> 20],
  [placeholder |-> "myredissecret", gen |-> "password", length |-> 20],
  [placeholder |-> "clickhouse", gen |-> "password", length |-> 20],
  [placeholder |-> "postgres", gen |-> "password", length |-> 20] >>

\* the keys of the postgres_passwords dict (84-88) in insertion order
PostgresPasswordKeys ==
  << "MLFLOW_POSTGRES_PASSWORD", "MLFLOW_POSTGRES_AUTH_PASSWORD", "LANGFUSE_POSTGRES_PASSWORD" >>

\* the value one entry of a dict is given by its generator call
Generate(entry, seed, pos) ==
  CASE entry.gen = "password" -> generate_secure_password(seed, pos, entry.length)
    [] entry.gen = "secret_key" -> generate_secret_key(seed, pos, entry.length)
    [] entry.gen = "salt" -> generate_salt(seed, pos)

\* the number of draws that call takes from the entropy stream
DrawsOf(entry) ==
  CASE entry.gen = "password" -> entry.length
    [] entry.gen = "secret_key" -> entry.length \div 2
    [] entry.gen = "salt" -> 16

\* the draws taken by the first n entries of a dict literal, whose values are
\* computed in order
RECURSIVE DrawsBefore(_, _)
DrawsBefore(table, n) ==
  IF n = 0 THEN 0 ELSE DrawsBefore(table, n - 1) + DrawsOf(table[n])

PlaceholderOffsets == [i \in 1..Len(PlaceholderTable) |-> DrawsBefore(PlaceholderTable, i - 1)]
PlaceholderDraws == DrawsBefore(PlaceholderTable, Len(PlaceholderTable))
DefaultValueOffsets == [i \in 1..Len(DefaultValueTable) |-> DrawsBefore(DefaultValueTable, i - 1)]
DefaultValueDraws == DrawsBefore(DefaultValueTable, Len(DefaultValueTable))

\* replacements = {...} (93-103): the value of its i-th entry, the dict being
\* built when the entropy stream is at pos
replacements(i, seed, pos) ==
  Generate(PlaceholderTable[i], seed, pos + PlaceholderOffsets[i])

\* value_replacements = {...} (137-144): the value of its i-th entry
value_replacements(i, seed, pos) ==
  Generate(DefaultValueTable[i], seed, pos + DefaultValueOffsets[i])

\* a variant of pregenerate_postgres_passwords: the generator is seeded
\* with a constant, every run reads the stream from its beginning
pregenerate_postgres_passwords_seeded(seed, pos) ==
  [i \in 1..Len(PostgresPasswordKeys) |->
     [key |-> PostgresPasswordKeys[i],
      password |-> generate_secure_password(seed, 20 * (i - 1), 20)]]

\* postgres_passwords = {...} (84-88)
pregenerate_postgres_passwords(seed, pos) ==
  [i \in 1..Len(PostgresPasswordKeys) |->
     [key |-> PostgresPasswordKeys[i],
      password |-> generate_secure_password(seed, pos + 20 * (i - 1), 20)]]

\* the loop 105-106 over a dict whose items come in another order: order
\* lists the entries of the table, each with the value it has in 93-103
RECURSIVE replace_placeholders_in_order(_, _, _, _)
replace_placeholders_in_order(line, order, seed, pos) ==
  IF order = << >> THEN line
  ELSE the({ replace_placeholders_in_order(replaced, Tail(order), seed, pos)
             : replaced \in { replace(line, PlaceholderTable[Head(order)].placeholder,
                                      replacements(Head(order), seed, pos)) } })

\* a variant of replace_placeholders: the loop breaks after the first
\* placeholder found in the line
RECURSIVE replace_placeholders_first_match(_, _, _, _)
replace_placeholders_first_match(line, i, seed, pos) ==
  IF i > Len(PlaceholderTable) THEN line
  ELSE IF contains(line, PlaceholderTable[i].placeholder)
       THEN replace(line, PlaceholderTable[i].placeholder, replacements(i, seed, pos))
       ELSE replace_placeholders_first_match(line, i + 1, seed, pos)

\* for placeholder, secure_value in replacements.items():
\*     line = line.replace(placeholder, secure_value)          (105-106)
\* from the i-th entry on
RECURSIVE replace_placeholders(_, _, _, _)
replace_placeholders(line, i, seed, pos) ==
  IF i > Len(PlaceholderTable) THEN line
  ELSE the({ replace_placeholders(replaced, i + 1, seed, pos)
             : replaced \in { replace(line, PlaceholderTable[i].placeholder,
                                      replacements(i, seed, pos)) } })

\* '=' in line and not line.strip().startswith('#')           (110, 127)
is_assignment(line) == contains(line, "=") /\ ~startswith(strip(line), "#")

\* a variant of postgres_key_index: line.startswith, without the strip
RECURSIVE postgres_key_index_unstripped(_, _, _)
postgres_key_index_unstripped(line, pgs, i) ==
  IF i > Len(pgs) THEN 0
  ELSE IF startswith(line, pgs[i].key \o "=") THEN i
  ELSE postgres_key_index_unstripped(line, pgs, i + 1)

\* index of the first postgres_passwords entry whose key starts the
\* stripped line, 0 when the loop 112-118 ends without a break
RECURSIVE postgres_key_index(_, _, _)
postgres_key_index(line, pgs, i) ==
  IF i > Len(pgs) THEN 0
  ELSE IF startswith(strip(line), pgs[i].key \o "=") THEN i
  ELSE postgres_key_index(line, pgs, i + 1)

\* key = line.split('=', 1)[0]; line = f"{key}={new_password}\n"   (115-116)
replace_postgres_password(line, new_password) ==
  split_key(line) \o "=" \o new_password \o "\n"

\* a variant of replace_default_value: a value that contains the token is
\* replaced
RECURSIVE replace_default_value_substring(_, _, _, _)
replace_default_value_substring(value, i, seed, pos) ==
  IF i > Len(DefaultValueTable) THEN value
  ELSE IF contains(value, "-" \o DefaultValueTable[i].placeholder)
       THEN "-" \o value_replacements(i, seed, pos)
  ELSE IF contains(value, DefaultValueTable[i].placeholder)
       THEN value_replacements(i, seed, pos)
  ELSE replace_default_value_substring(value, i + 1, seed, pos)

\* the loop 146-152 over value_replacements, from its i-th entry on
RECURSIVE replace_default_value(_, _, _, _)
replace_default_value(value, i, seed, pos) ==
  IF i > Len(DefaultValueTable) THEN value
  ELSE IF strip(value) = DefaultValueTable[i].placeholder
       THEN value_replacements(i, seed, pos)
  ELSE IF strip(value) = "-" \o DefaultValueTable[i].placeholder
       THEN "-" \o value_replacements(i, seed, pos)
  ELSE replace_default_value(value, i + 1, seed, pos)

\* does the line reach the value_replacements dict (135-144)?
reaches_default_values(line) ==
  is_assignment(line) /\ ~contains(rstrip_newline(split_value(line)), "${")

\* a variant of rewrite_assignment: line = f"{key}={value.strip()}\n"
rewrite_assignment_stripped(line, seed, pos) ==
  the({ IF ~contains(value, "${")
        THEN split_key(line) \o "=" \o strip(replace_default_value(value, 1, seed, pos))
             \o "\n"
        ELSE split_key(line) \o "=" \o strip(value) \o "\n"
        : value \in { rstrip_newline(split_value(line)) } })

\* lines 129-154: key, value = line.split('=', 1); ...; line = f"{key}={value}\n"
rewrite_assignment(line, seed, pos) ==
  the({ IF ~contains(value, "${")
        THEN split_key(line) \o "=" \o replace_default_value(value, 1, seed, pos) \o "\n"
        ELSE split_key(line) \o "=" \o value \o "\n"
        : value \in { rstrip_newline(split_value(line)) } })

\* a variant of classify_line: the password of a database-password line is
\* generated when the line is reached
classify_line_fresh_password(line, pgs, seed, pos) ==
  IF is_assignment(line) /\ postgres_key_index(line, pgs, 1) # 0
  THEN [line |-> replace_postgres_password(
                   line, generate_secure_password(seed, pos, 20)),
        draws |-> 20]
  ELSE IF is_assignment(line)
  THEN [line |-> rewrite_assignment(line, seed, pos),
        draws |-> IF reaches_default_values(line) THEN DefaultValueDraws ELSE 0]
  ELSE [line |-> line, draws |-> 0]

\* lines 108-156 for a line that went through the placeholder loop: the line
\* appended to processed_lines and the draws the dict at 137-144 took
classify_line(line, pgs, seed, pos) ==
  IF is_assignment(line) /\ postgres_key_index(line, pgs, 1) # 0
  THEN [line |-> replace_postgres_password(
                   line, pgs[postgres_key_index(line, pgs, 1)].password),
        draws |-> 0]
  ELSE IF is_assignment(line)
  THEN [line |-> rewrite_assignment(line, seed, pos),
        draws |-> IF reaches_default_values(line) THEN DefaultValueDraws ELSE 0]
  ELSE [line |-> line, draws |-> 0]

\* one iteration of the loop 90-156: the line appended to processed_lines
\* and the number of draws it took from the entropy stream
process_line(line, pgs, seed, pos) ==
  the({ [line |-> r.line, draws |-> PlaceholderDraws + r.draws]
        : r \in { classify_line(replaced, pgs, seed, pos + PlaceholderDraws)
                  : replaced \in { replace_placeholders(line, 1, seed, pos) } } })

(***************************************************************************)
(* create_env_from_template: the admin credentials (deploy_stack.py        *)
(* 158-195).                                                               *)
(***************************************************************************)
ADMIN_USERNAME_PREFIX == "MLFLOW_ADMIN_USERNAME="
ADMIN_PASSWORD_PREFIX == "MLFLOW_ADMIN_PASSWORD="

\* any(line.startswith(prefix) for line in processed_lines)     (160-161)
has_line_with(ls, prefix) == \E i \in 1..Len(ls) : startswith(ls[i], prefix)

\* line.split('=', 1)[1].strip() is empty                       (171, 188)
has_empty_value(line) == strip(split_value(line)) = ""

\* a variant of ensure_admin_username: an empty username is left as it is
ensure_admin_username_append_only(ls, has_user) ==
  IF ~has_user THEN Append(ls, ADMIN_USERNAME_PREFIX \o "admin\n") ELSE ls

\* lines 164-178
ensure_admin_username(ls, has_user) ==
  IF ~has_user
  THEN Append(ls, ADMIN_USERNAME_PREFIX \o "admin\n")
  ELSE [i \in 1..Len(ls) |->
          IF startswith(ls[i], ADMIN_USERNAME_PREFIX) /\ has_empty_value(ls[i])
          THEN ADMIN_USERNAME_PREFIX \o "admin\n"
          ELSE ls[i]]

\* a variant of fill_admin_passwords: every password line takes a generated
\* password, whatever its value
RECURSIVE fill_admin_passwords_overwrite_all(_, _, _)
fill_admin_passwords_overwrite_all(ls, seed, pos) ==
  IF ls = << >> THEN [lines |-> << >>, draws |-> 0]
  ELSE IF startswith(Head(ls), ADMIN_PASSWORD_PREFIX)
       THEN the({ [lines |-> << ADMIN_PASSWORD_PREFIX
                                \o generate_secure_password(seed, pos, 20) \o "\n" >>
                             \o rest.lines,
                   draws |-> 20 + rest.draws]
                  : rest \in { fill_admin_passwords_overwrite_all(Tail(ls), seed, pos + 20) } })
       ELSE the({ [lines |-> << Head(ls) >> \o rest.lines, draws |-> rest.draws]
                  : rest \in { fill_admin_passwords_overwrite_all(Tail(ls), seed, pos) } })

\* the loop 186-194: every empty password line takes a password of its own
RECURSIVE fill_admin_passwords(_, _, _)
fill_admin_passwords(ls, seed, pos) ==
  IF ls = << >> THEN [lines |-> << >>, draws |-> 0]
  ELSE IF startswith(Head(ls), ADMIN_PASSWORD_PREFIX) /\ has_empty_value(Head(ls))
       THEN the({ [lines |-> << ADMIN_PASSWORD_PREFIX
                                \o generate_secure_password(seed, pos, 20) \o "\n" >>
                             \o rest.lines,
                   draws |-> 20 + rest.draws]
                  : rest \in { fill_admin_passwords(Tail(ls), seed, pos + 20) } })
       ELSE the({ [lines |-> << Head(ls) >> \o rest.lines, draws |-> rest.draws]
                  : rest \in { fill_admin_passwords(Tail(ls), seed, pos) } })

\* a variant of ensure_admin_password: the appended password has the
\* default length of generate_secure_password
ensure_admin_password_default_length(ls, has_pass, seed, pos) ==
  IF ~has_pass
  THEN [lines |-> Append(ls, ADMIN_PASSWORD_PREFIX
                             \o generate_secure_password(seed, pos, 16) \o "\n"),
        draws |-> 16]
  ELSE fill_admin_passwords(ls, seed, pos)

\* lines 181-195
ensure_admin_password(ls, has_pass, seed, pos) ==
  IF ~has_pass
  THEN [lines |-> Append(ls, ADMIN_PASSWORD_PREFIX
                             \o generate_secure_password(seed, pos, 20) \o "\n"),
        draws |-> 20]
  ELSE fill_admin_passwords(ls, seed, pos)

\* lines 160-195 on the processed lines
reconcile_admin(ls, seed, pos) ==
  the({ ensure_admin_password(with_user, has_line_with(ls, ADMIN_PASSWORD_PREFIX),
                              seed, pos)
        : with_user \in { ensure_admin_username(
                            ls, has_line_with(ls, ADMIN_USERNAME_PREFIX)) } })

(***************************************************************************)
(* The inputs: template files and entropy streams.                         *)
(***************************************************************************)
\* the line bodies of the multi-line templates
CommonLines == {
  "# set change_me_on_first_login",
  "NAME= my app ",
  "URL=${PW:-change_me_on_first_login}",
  "MLFLOW_POSTGRES_PASSWORD=s3cr3t",
  "SALT=change_me_with_a_secure_salt",
  "MLFLOW_ADMIN_USERNAME=",
  "MLFLOW_ADMIN_USERNAME=bob",
  "MLFLOW_ADMIN_PASSWORD= ",
  "MLFLOW_ADMIN_PASSWORD=s3cr3t" }

\* the line bodies of the one-line templates
TemplateLines == CommonLines \cup {
  "",
  "no assignment here",
  "PORT=5000",
  "URI=${DB_URI} ",
  " MLFLOW_POSTGRES_AUTH_PASSWORD=${PG:-postgres}",
  "LANGFUSE_POSTGRES_PASSWORD=change_me_with_a_secure_key",
  "FLASK_KEY=change_me_with_a_secure_key",
  "MLFLOW_ADMIN_PASSWORD=change_me_on_first_login",
  "NEXTAUTH_SECRET=change_me_with_a_secure_secret",
  "ENCRYPTION_KEY=change_me_with_64_char_hex_key_generate_via_openssl_rand_hex_32",
  "LANGFUSE_INIT_USER_PASSWORD=change_me_langfuse_password",
  "CLICKHOUSE_PASSWORD=change_me_clickhouse_password",
  "MINIO_ROOT_PASSWORD=change_me_minio_password",
  "REDIS_AUTH=change_me_redis_password",
  "DSN=redis://:change_me_redis_password@redis:6379",
  "PAIR=change_me_on_first_login:change_me_with_a_secure_salt",
  "TOKEN=change_me_on_first_login_me_on_first_login",
  "LF=change_me_langfuse_password_me_on_first_login",
  " MLFLOW_ADMIN_USERNAME=eve",
  "PGPASS=postgres",
  "PGOPT=-postgres",
  "PGDB=postgres_db",
  "PGPAD= postgres ",
  "FLASK_SECRET=mysecret",
  "PW_SALT=-mysalt",
  "MINIO_SECRET=miniosecret",
  "REDIS_SECRET=myredissecret",
  "CLICKHOUSE_USER=clickhouse",
  "PGTWO=--postgres",
  "MLFLOW_POSTGRES_PASSWORD=postgres_db",
  "MLFLOW_ADMIN_USERNAME=postgres" }

\* the content of a file with the given line bodies; the last line lacks
\* its newline when terminated is FALSE
RECURSIVE file_content(_, _)
file_content(bodies, terminated) ==
  IF bodies = << >> THEN ""
  ELSE IF Len(bodies) = 1
       THEN Head(bodies) \o (IF terminated THEN "\n" ELSE "")
       ELSE Head(bodies) \o "\n" \o file_content(Tail(bodies), terminated)

\* the templates: one line of any kind, or up to MaxLines common lines
TemplateFiles ==
  { file_content(bodies, terminated) :
      bodies \in [1..1 -> TemplateLines]
                 \cup UNION { [1..n -> CommonLines] : n \in 0..MaxLines },
      terminated \in BOOLEAN }

\* the entropy streams: each is repeated periodically
Seeds == {
  << 0 >>,
  << 7, 200, 61, 33, 158, 90, 255 >>,
  \* from position 92 on, twenty draws spell a password that ends in "change"
  << 52, 53, 54, 55, 56, 57, 2, 7, 0, 13, 6, 4, 26, 27, 28, 29, 30, 31, 32, 33 >> }

(***************************************************************************)
(* The state.                                                              *)
(***************************************************************************)
VARIABLES
  env_example,         \* the file .env.example: [exists, content]
  env,                 \* the file .env: [exists, content]
  rng,                 \* the entropy stream of this execution
  rng_pos,             \* how far the stream has been consumed (mod its period)
  call,                \* the function that was called, with its argument
  pc,                  \* position within the called function
  lines,               \* the template as read by readlines (78)
  postgres_passwords,  \* the pre-generated database passwords (84-88)
  processed_lines,     \* the list built by the loop and by the reconciler
  returned,            \* "None" while running, then the value returned
  env_before,          \* history: .env when the current call began
  invocations,         \* history: the number of runs of the script so far
  run_start,           \* history: the stream position at which this run's
                       \* generation began (line 84)
  previous_run,        \* history: what the previous invocation generated
  writers,             \* two concurrent executions of the script: per
                       \* execution its position, line list and file offset
  argv,                \* the command-line arguments of the process
  main_pc,             \* position within main of deploy_stack.py
  steps,               \* history: the steps of main that ended, with results
  commands,            \* history: the shell commands issued
  exit_code,           \* "None" while the process runs, then its exit code
  validate_pc,         \* position within validate_deployment
  results,             \* validate_services.main: the list results (110)
  validation,          \* what validate_services.main returned
  deployment_valid,    \* what validate_deployment returned
  client,              \* MLflowUserManager.client
  calls,               \* history: the methods called on the manager
  vendor_calls,        \* history: the calls made on the vendor client
  setup_pc,            \* position within main of setup_mlflow_auth.py
  entered,             \* what the operator typed at the prompts
  admin_passwords      \* history: the admin passwords the MLflow server
                       \* has held, the last of them being in force

\* the state of the executions modelled apart from the single run of
\* check_env_file / create_env_from_template
scripts == << argv, main_pc, steps, commands, exit_code, validate_pc, results,
             validation, deployment_valid, client, calls, vendor_calls, setup_pc,
             entered, admin_passwords >>

other_programs == << writers, scripts >>

vars == << env_example, env, rng, rng_pos, call, pc, lines, postgres_passwords,
           processed_lines, returned, env_before, invocations, run_start,
           previous_run, other_programs >>

\* no earlier invocation has generated a .env
NoRun == [generated |-> FALSE, start |-> 0, lines |-> << >>]

\* the two concurrent executions have not been started
NoWriters == << >>

\* no script has been started as a process
ScriptsIdle ==
  /\ argv = << >>
  /\ main_pc = "idle"
  /\ steps = << >>
  /\ commands = << >>
  /\ exit_code = "None"
  /\ validate_pc = "idle"
  /\ results = << >>
  /\ validation = "None"
  /\ deployment_valid = "None"
  /\ client = "None"
  /\ calls = << >>
  /\ vendor_calls = << >>
  /\ setup_pc = "idle"
  /\ entered = << >>
  /\ admin_passwords = << >>

\* nothing but the single run is executing
OtherProgramsIdle ==
  /\ writers = NoWriters
  /\ ScriptsIdle

NoFile == [exists |-> FALSE, content |-> ""]
File(content) == [exists |-> TRUE, content |-> content]

Advance(pos, draws) == (pos + draws) % Len(rng)

\* create_env_from_template() is called in a directory without .env
Init ==
  /\ env_example \in {NoFile} \cup { File(c) : c \in TemplateFiles }
  /\ env = NoFile
  /\ rng \in Seeds
  /\ rng_pos = 0
  /\ call = << "create_env_from_template" >>
  /\ pc = "start"
  /\ lines = << >>
  /\ postgres_passwords = << >>
  /\ processed_lines = << >>
  /\ returned = "None"
  /\ env_before = env
  /\ invocations = 1
  /\ run_start = 0
  /\ previous_run = NoRun
  /\ OtherProgramsIdle

\* a variant of TemplateNotFound: .env is opened for writing before the test
TemplateNotFound_after_open ==
  /\ pc = "start"
  /\ ~env_example.exists
  /\ env' = File("")
  /\ pc' = "done"
  /\ returned' = "False"
  /\ UNCHANGED << env_example, rng, rng_pos, call, lines, postgres_passwords,
                  processed_lines, env_before, invocations,
                  run_start, previous_run, other_programs >>

\* lines 70-72: the template does not exist
TemplateNotFound ==
  /\ pc = "start"
  /\ ~env_example.exists
  /\ pc' = "done"
  /\ returned' = "False"
  /\ UNCHANGED << env_example, env, rng, rng_pos, call, lines, postgres_passwords,
                  processed_lines, env_before, invocations,
                  run_start, previous_run, other_programs >>

\* lines 76-88: read the template, pre-generate the database passwords
ReadTemplate ==
  /\ pc = "start"
  /\ env_example.exists
  /\ lines' = readlines(env_example.content)
  /\ processed_lines' = << >>
  /\ postgres_passwords' = pregenerate_postgres_passwords(rng, rng_pos)
  /\ rng_pos' = Advance(rng_pos, 20 * Len(PostgresPasswordKeys))
  /\ pc' = "loop"
  /\ run_start' = rng_pos
  /\ UNCHANGED << env_example, env, rng, call, returned, env_before, invocations,
                  previous_run, other_programs >>

\* one iteration of the loop 90-156
ProcessLine ==
  /\ pc = "loop"
  /\ Len(processed_lines) < Len(lines)
  /\ \E r \in { process_line(lines[Len(processed_lines) + 1], postgres_passwords,
                                rng, rng_pos) } :
       /\ processed_lines' = Append(processed_lines, r.line)
       /\ rng_pos' = Advance(rng_pos, r.draws)
  /\ UNCHANGED << env_example, env, rng, call, pc, lines, postgres_passwords,
                  returned, env_before, invocations,
                  run_start, previous_run, other_programs >>

\* lines 158-195, once the loop is over
ReconcileAdmin ==
  /\ pc = "loop"
  /\ Len(processed_lines) = Len(lines)
  /\ \E r \in { reconcile_admin(processed_lines, rng, rng_pos) } :
       /\ processed_lines' = r.lines
       /\ rng_pos' = Advance(rng_pos, r.draws)
  /\ pc' = "write"
  /\ UNCHANGED << env_example, env, rng, call, lines, postgres_passwords, returned,
                  env_before, invocations,
                  run_start, previous_run, other_programs >>

\* a variant of OpenEnv: open(env_path, 'a') keeps what .env holds
OpenEnv_append ==
  /\ pc = "write"
  /\ env' = File(env.content)
  /\ pc' = "writing"
  /\ UNCHANGED << env_example, rng, rng_pos, call, lines, postgres_passwords,
                  processed_lines, returned, env_before, invocations,
                  run_start, previous_run, other_programs >>

\* line 198: open(env_path, 'w') creates .env or truncates it
OpenEnv ==
  /\ pc = "write"
  /\ env' = File("")
  /\ pc' = "writing"
  /\ UNCHANGED << env_example, rng, rng_pos, call, lines, postgres_passwords,
                  processed_lines, returned, env_before, invocations,
                  run_start, previous_run, other_programs >>

\* lines 199-203: write the lines, close .env and return True
WriteEnv ==
  /\ pc = "writing"
  /\ env' = File(env.content \o writelines(processed_lines))
  /\ pc' = "done"
  /\ returned' = "True"
  /\ UNCHANGED << env_example, rng, rng_pos, call, lines, postgres_passwords,
                  processed_lines, env_before, invocations,
                  run_start, previous_run, other_programs >>

Next ==
  \/ TemplateNotFound
  \/ ReadTemplate
  \/ ProcessLine
  \/ ReconcileAdmin
  \/ OpenEnv
  \/ WriteEnv

Spec == Init /\ [][Next]_vars

(***************************************************************************)
(* check_env_file (deploy_stack.py 227-272).                               *)
(***************************************************************************)
\* the number of times the script is run
MaxInvocations == 2

\* lines 246-249
placeholder_patterns == << "change_me", "CHANGEME" >>

\* a variant of has_placeholder: the whole line is searched
has_placeholder_anywhere(line) ==
  \E k \in 1..Len(placeholder_patterns) : contains(line, placeholder_patterns[k])

\* lines 253-262 for one line of .env
has_placeholder(line) ==
  /\ is_assignment(line)
  /\ \E k \in 1..Len(placeholder_patterns) :
       contains(strip(split_value(line)), placeholder_patterns[k])

\* lines 251-264: found_placeholders is not empty
found_placeholders(ls) == \E i \in 1..Len(ls) : has_placeholder(ls[i])

\* the templates of the runs of check_env_file
CheckTemplates == {
  "",
  "PORT=5000\n",
  "KEY=change_me_with_a_secure_key\n# change_me\n",
  "NOTE=change_me_later\nPORT=5000",
  "MLFLOW_ADMIN_PASSWORD=CHANGEME\nMLFLOW_ADMIN_USERNAME=bob\n",
  "TOKEN=change_me_on_first_login_me_on_first_login\n",
  "MLFLOW_POSTGRES_AUTH_PASSWORD=pw\nLANGFUSE_POSTGRES_PASSWORD=pw\nNOTE=change_me_later\n" }

\* the .env files found by the first run
EnvFiles == {
  "",
  "PORT=5000\n",
  "# change_me\nchange_me_KEY=ok\n",
  "OLD=change_me_old\nKEEP=legacy\n",
  "X= CHANGEME",
  "A=b\nMLFLOW_ADMIN_PASSWORD=change_me_on_first_login\n" }

\* check_env_file() is called for the first time
CheckInit ==
  /\ env_example \in {NoFile} \cup { File(c) : c \in CheckTemplates }
  /\ env \in {NoFile} \cup { File(c) : c \in EnvFiles }
  /\ rng \in Seeds
  /\ rng_pos = 0
  /\ call = << "check_env_file" >>
  /\ pc = "check"
  /\ lines = << >>
  /\ postgres_passwords = << >>
  /\ processed_lines = << >>
  /\ returned = "None"
  /\ env_before = env
  /\ invocations = 1
  /\ run_start = 0
  /\ previous_run = NoRun
  /\ OtherProgramsIdle

\* a variant of CheckEnvMissing: the function returns True
CheckEnvMissing_returns_true ==
  /\ pc = "check"
  /\ ~env.exists
  /\ ~env_example.exists
  /\ pc' = "checked"
  /\ returned' = "True"
  /\ UNCHANGED << env_example, env, rng, rng_pos, call, lines, postgres_passwords,
                  processed_lines, env_before, invocations,
                  run_start, previous_run, other_programs >>

\* lines 232, 236-238: neither .env nor .env.example
CheckEnvMissing ==
  /\ pc = "check"
  /\ ~env.exists
  /\ ~env_example.exists
  /\ pc' = "checked"
  /\ returned' = "False"
  /\ UNCHANGED << env_example, env, rng, rng_pos, call, lines, postgres_passwords,
                  processed_lines, env_before, invocations,
                  run_start, previous_run, other_programs >>

\* lines 232-235: no .env, return create_env_from_template()
CheckEnvCreate ==
  /\ pc = "check"
  /\ ~env.exists
  /\ env_example.exists
  /\ pc' = "start"
  /\ UNCHANGED << env_example, env, rng, rng_pos, call, lines, postgres_passwords,
                  processed_lines, returned, env_before, invocations,
                  run_start, previous_run, other_programs >>

\* a variant of CheckEnvRegenerate: the stale .env is removed before
\* create_env_from_template() is called
CheckEnvRegenerate_removes_env ==
  /\ pc = "check"
  /\ env.exists
  /\ found_placeholders(readlines(env.content))
  /\ env' = NoFile
  /\ pc' = "start"
  /\ UNCHANGED << env_example, rng, rng_pos, call, lines, postgres_passwords,
                  processed_lines, returned, env_before, invocations,
                  run_start, previous_run, other_programs >>

\* lines 242-269: placeholders found, return create_env_from_template()
CheckEnvRegenerate ==
  /\ pc = "check"
  /\ env.exists
  /\ found_placeholders(readlines(env.content))
  /\ pc' = "start"
  /\ UNCHANGED << env_example, env, rng, rng_pos, call, lines, postgres_passwords,
                  processed_lines, returned, env_before, invocations,
                  run_start, previous_run, other_programs >>

\* lines 242-264, 271-272: no placeholder found, return True
CheckEnvGood ==
  /\ pc = "check"
  /\ env.exists
  /\ ~found_placeholders(readlines(env.content))
  /\ pc' = "checked"
  /\ returned' = "True"
  /\ UNCHANGED << env_example, env, rng, rng_pos, call, lines, postgres_passwords,
                  processed_lines, env_before, invocations,
                  run_start, previous_run, other_programs >>

\* line 328 of a later run of the script: check_env_file() is called again
Reinvoke ==
  /\ pc \in {"done", "checked"}
  /\ invocations < MaxInvocations
  /\ invocations' = invocations + 1
  /\ env_before' = env
  /\ call' = << "check_env_file" >>
  /\ pc' = "check"
  /\ lines' = << >>
  /\ postgres_passwords' = << >>
  /\ processed_lines' = << >>
  /\ returned' = "None"
  /\ previous_run' = IF pc = "done" /\ returned = "True"
                     THEN [generated |-> TRUE, start |-> run_start,
                           lines |-> processed_lines]
                     ELSE NoRun
  /\ UNCHANGED << env_example, env, rng, rng_pos, run_start, other_programs >>

CheckNext ==
  \/ CheckEnvMissing
  \/ CheckEnvCreate
  \/ CheckEnvRegenerate
  \/ CheckEnvGood
  \/ TemplateNotFound
  \/ ReadTemplate
  \/ ProcessLine
  \/ ReconcileAdmin
  \/ OpenEnv
  \/ WriteEnv
  \/ Reinvoke

CheckSpec == CheckInit /\ [][CheckNext]_vars

(***************************************************************************)
(* The pipeline with failing file operations: nothing in lines 76-78 and   *)
(* 198-199 catches an exception of open, readlines or writelines.          *)
(***************************************************************************)
\* lines 77-78: open or readlines raises, the exception leaves the function
ReadFails ==
  /\ pc = "start"
  /\ env_example.exists
  /\ pc' = "done"
  /\ returned' = "Exception"
  /\ UNCHANGED << env_example, env, rng, rng_pos, call, lines, postgres_passwords,
                  processed_lines, env_before, invocations,
                  run_start, previous_run, other_programs >>

\* line 198: open(env_path, 'w') raises, .env is not touched
OpenFails ==
  /\ pc = "write"
  /\ pc' = "done"
  /\ returned' = "Exception"
  /\ UNCHANGED << env_example, env, rng, rng_pos, call, lines, postgres_passwords,
                  processed_lines, env_before, invocations,
                  run_start, previous_run, other_programs >>

\* line 199: the write raises after .env was truncated by open; some of the
\* lines, not all of them, have reached the file
WriteFails ==
  /\ pc = "writing"
  /\ \E written \in 0..(Len(processed_lines) - 1) :
       env' = File(env.content \o writelines(SubSeq(processed_lines, 1, written)))
  /\ pc' = "done"
  /\ returned' = "Exception"
  /\ UNCHANGED << env_example, rng, rng_pos, call, lines, postgres_passwords,
                  processed_lines, env_before, invocations,
                  run_start, previous_run, other_programs >>

FaultNext ==
  \/ CheckNext
  \/ ReadFails
  \/ OpenFails
  \/ WriteFails

FaultSpec == CheckInit /\ [][FaultNext]_vars

(***************************************************************************)
(* Vocabulary of the properties.                                           *)
(***************************************************************************)
\* create_env_from_template has returned True
Finished == pc = "done" /\ returned = "True"

\* the reconciler has run: processed_lines is the list that is written
Reconciled == pc \in {"write", "writing"} \/ Finished

\* the nine known sentinel substrings
Sentinels == {
  "change_me_with_a_secure_key",
  "change_me_on_first_login",
  "change_me_with_a_secure_secret",
  "change_me_with_a_secure_salt",
  "change_me_with_64_char_hex_key_generate_via_openssl_rand_hex_32",
  "change_me_langfuse_password",
  "change_me_clickhouse_password",
  "change_me_minio_password",
  "change_me_redis_password" }

\* the same in the fixed list order
SentinelOrder == <<
  "change_me_with_a_secure_key",
  "change_me_on_first_login",
  "change_me_with_a_secure_secret",
  "change_me_with_a_secure_salt",
  "change_me_with_64_char_hex_key_generate_via_openssl_rand_hex_32",
  "change_me_langfuse_password",
  "change_me_clickhouse_password",
  "change_me_minio_password",
  "change_me_redis_password" >>

BareDefaultTokens ==
  { "mysecret", "mysalt", "miniosecret", "myredissecret", "clickhouse", "postgres" }

DatabasePasswordKeys ==
  { "MLFLOW_POSTGRES_PASSWORD", "MLFLOW_POSTGRES_AUTH_PASSWORD", "LANGFUSE_POSTGRES_PASSWORD" }

LowerHexChars == { CharAt("0123456789abcdef", i) : i \in 1..16 }

AlphanumericChars ==
  { CharAt("ABCDEFGHIJKLMNOPQRSTUVWXYZabcdefghijklmnopqrstuvwxyz0123456789", i) : i \in 1..62 }

\* s consists of exactly n characters of chars
IsStringOf(s, chars, n) == Len(s) = n /\ \A i \in 1..n : CharAt(s, i) \in chars

IsLowerHex(s, n) == IsStringOf(s, LowerHexChars, n)
IsPassword(s) == IsStringOf(s, AlphanumericChars, 20)

\* the length of the secret a sentinel stands for
SecretLength(sentinel) ==
  IF sentinel \in { "change_me_with_a_secure_key", "change_me_with_a_secure_secret",
                    "change_me_with_64_char_hex_key_generate_via_openssl_rand_hex_32" }
  THEN 64
  ELSE IF sentinel = "change_me_with_a_secure_salt" THEN 32
  ELSE 20

\* s is a secret of the kind a sentinel stands for
HasKindOf(s, sentinel) ==
  IF SecretLength(sentinel) = 20 THEN IsPassword(s)
  ELSE IsLowerHex(s, SecretLength(sentinel))

HasSentinel(s) == \E sentinel \in Sentinels : contains(s, sentinel)

\* the first sentinel of the list that occurs in s
FirstSentinel(s) ==
  SentinelOrder[Min({ k \in 1..Len(SentinelOrder) : contains(s, SentinelOrder[k]) })]

\* the VALUE and the KEY of an assignment line
ValueOf(line) == rstrip_newline(split_value(line))
KeyOf(line) == split_key(line)

\* the key of the line, leading whitespace apart, is a database-password key
HasDatabasePasswordKey(line) ==
  /\ contains(line, "=")
  /\ SubSeq(KeyOf(line), leading(KeyOf(line), Whitespace) + 1, Len(KeyOf(line)))
       \in DatabasePasswordKeys

\* the line is an admin-credential line without a value
IsEmptyAdminLine(line) ==
  /\ startswith(line, ADMIN_USERNAME_PREFIX) \/ startswith(line, ADMIN_PASSWORD_PREFIX)
  /\ strip(split_value(line)) = ""

\* the line with a final newline, added when it is missing
WithNewline(line) ==
  IF Len(line) > 0 /\ CharAt(line, Len(line)) = "\n" THEN line ELSE line \o "\n"

\* the positions of the template lines
TemplatePositions == 1..Len(lines)

\* the number of lines of ls that start with prefix
CountLines(ls, prefix) == Cardinality({ i \in 1..Len(ls) : startswith(ls[i], prefix) })

\* the sentinel (if any) that occurs in s at position i
SentinelAt(s, i) ==
  { sentinel \in Sentinels :
      /\ i + Len(sentinel) - 1 <= Len(s)
      /\ SubSeq(s, i, i + Len(sentinel) - 1) = sentinel }

\* every underscore of s from position i on lies within a sentinel occurrence
RECURSIVE NoStrayUnderscore(_, _)
NoStrayUnderscore(s, i) ==
  IF i > Len(s) THEN TRUE
  ELSE IF SentinelAt(s, i) # {}
       THEN \E next \in { i + Len(the(SentinelAt(s, i))) } : NoStrayUnderscore(s, next)
       ELSE CharAt(s, i) # "_" /\ \E next \in { i + 1 } : NoStrayUnderscore(s, next)

\* out from position j on is s from position i on with every sentinel
\* occurrence replaced by some secret of that sentinel's kind
RECURSIVE ReplacedInPlace(_, _, _, _)
ReplacedInPlace(s, i, out, j) ==
  IF i > Len(s) THEN j = Len(out) + 1
  ELSE IF SentinelAt(s, i) # {}
       THEN \E sentinel \in SentinelAt(s, i) :
              \E next \in { j + SecretLength(sentinel) } :
                /\ next <= Len(out) + 1
                /\ HasKindOf(SubSeq(out, j, next - 1), sentinel)
                /\ ReplacedInPlace(s, i + Len(sentinel), out, next)
       ELSE /\ j <= Len(out)
            /\ CharAt(s, i) = CharAt(out, j)
            /\ \E ni \in { i + 1 } : \E nj \in { j + 1 } : ReplacedInPlace(s, ni, out, nj)

(***************************************************************************)
(* C1.                                                                     *)
(***************************************************************************)
\* C1: after create_env_from_template succeeds, the written .env, read back
\* line by line, has a line starting with MLFLOW_ADMIN_USERNAME= and a line
\* starting with MLFLOW_ADMIN_PASSWORD=, each with a non-empty trimmed value.
C1_AdminCredentialsInWrittenEnv ==
  Finished =>
    \A prefix \in { ADMIN_USERNAME_PREFIX, ADMIN_PASSWORD_PREFIX } :
      \E i \in 1..Len(readlines(env.content)) :
        /\ startswith(readlines(env.content)[i], prefix)
        /\ strip(split_value(readlines(env.content)[i])) # ""

(***************************************************************************)
(* C2.                                                                     *)
(***************************************************************************)
\* C2: after create_env_from_template succeeds, no assignment line of the
\* output has a value that contains one of the nine sentinel substrings.
C2_NoSentinelInOutputValues ==
  Finished =>
    \A i \in 1..Len(processed_lines) :
      is_assignment(processed_lines[i]) => ~HasSentinel(split_value(processed_lines[i]))

C4_DatabasePasswordsRegenerated ==
  Finished =>
    \A i \in TemplatePositions :
      HasDatabasePasswordKey(lines[i]) =>
        \E k \in 1..Len(postgres_passwords) :
          /\ strip(KeyOf(lines[i])) = postgres_passwords[k].key
          /\ IsPassword(postgres_passwords[k].password)
          /\ processed_lines[i]
               = KeyOf(lines[i]) \o "=" \o postgres_passwords[k].password \o "\n"

\* a run has finished on a database-password line with leading whitespace
\* whose value contains "${"
C4_Witness ==
  /\ Finished
  /\ \E i \in TemplatePositions :
       /\ HasDatabasePasswordKey(lines[i])
       /\ contains(ValueOf(lines[i]), "${")
       /\ strip(KeyOf(lines[i])) # KeyOf(lines[i])

(***************************************************************************)
(* C5.                                                                     *)
(***************************************************************************)
\* C5 as stated: for an assignment line (not a database-password key) whose
\* value contains a sentinel, the entire value is replaced by one secret, of
\* the kind of the first sentinel of the list that matches.
C5_EntireValueReplaced ==
  Finished =>
    \A i \in TemplatePositions :
      ( /\ is_assignment(lines[i])
        /\ ~HasDatabasePasswordKey(lines[i])
        /\ HasSentinel(ValueOf(lines[i])) )
        => /\ KeyOf(processed_lines[i]) = KeyOf(lines[i])
           /\ HasKindOf(ValueOf(processed_lines[i]), FirstSentinel(ValueOf(lines[i])))

\* C5 amended: for an assignment line (not a database-password key) whose
\* value is made of sentinel occurrences and of text without underscores,
\* each sentinel occurrence, and not the entire value, is replaced by a
\* secret of that sentinel's kind; the text around the occurrences is kept,
\* and the occurrences of every sentinel are replaced, not only those of the
\* first that matches.
C5_SentinelOccurrencesReplaced ==
  Finished =>
    \A i \in TemplatePositions :
      ( /\ is_assignment(lines[i])
        /\ ~HasDatabasePasswordKey(lines[i])
        /\ HasSentinel(ValueOf(lines[i]))
        /\ NoStrayUnderscore(ValueOf(lines[i]), 1) )
        => /\ KeyOf(processed_lines[i]) = KeyOf(lines[i])
           /\ ReplacedInPlace(ValueOf(lines[i]), 1, ValueOf(processed_lines[i]), 1)
           /\ processed_lines[i] = WithNewline(processed_lines[i])

\* a run has finished on a line with two different sentinels and text
\* between them
C5_Witness ==
  /\ Finished
  /\ \E i \in TemplatePositions :
       /\ is_assignment(lines[i])
       /\ ~HasDatabasePasswordKey(lines[i])
       /\ NoStrayUnderscore(ValueOf(lines[i]), 1)
       /\ Cardinality({ sentinel \in Sentinels : contains(ValueOf(lines[i]), sentinel) }) = 2
       /\ SentinelAt(ValueOf(lines[i]), 1) # {}
       /\ ValueOf(processed_lines[i]) # ValueOf(lines[i])

(***************************************************************************)
(* C6.                                                                     *)
(***************************************************************************)
\* C6 as stated: for a line KEY=<sentinel> whose value is exactly one
\* sentinel, the output line has the same key and its value has the kind of
\* the sentinel: 64 lowercase hex characters for the secure_key,
\* secure_secret and 64_char_hex_key sentinels, 32 for the secure_salt
\* sentinel, 20 alphanumeric characters for the password sentinels.
C6_ExactSentinelKind ==
  Finished =>
    \A i \in TemplatePositions :
      (is_assignment(lines[i]) /\ ValueOf(lines[i]) \in Sentinels)
        => /\ KeyOf(processed_lines[i]) = KeyOf(lines[i])
           /\ HasKindOf(ValueOf(processed_lines[i]), ValueOf(lines[i]))

\* C6 amended: the same, for every KEY that is not one of the three
\* database-password keys (the value of those is a 20-character password
\* whatever the sentinel).
C6_ExactSentinelKindOfOtherKeys ==
  Finished =>
    \A i \in TemplatePositions :
      ( /\ is_assignment(lines[i])
        /\ ValueOf(lines[i]) \in Sentinels
        /\ ~HasDatabasePasswordKey(lines[i]) )
        => /\ KeyOf(processed_lines[i]) = KeyOf(lines[i])
           /\ HasKindOf(ValueOf(processed_lines[i]), ValueOf(lines[i]))

\* a run has finished on a line whose value is exactly the salt sentinel
C6_Witness ==
  /\ Finished
  /\ \E i \in TemplatePositions :
       /\ is_assignment(lines[i])
       /\ ValueOf(lines[i]) = "change_me_with_a_secure_salt"
       /\ ~HasDatabasePasswordKey(lines[i])
       /\ IsLowerHex(ValueOf(processed_lines[i]), 32)

(***************************************************************************)
(* C7.                                                                     *)
(***************************************************************************)
\* C7: every template line that is a comment, blank or otherwise not an
\* assignment appears in the output unchanged, whatever text it contains.
C7_OtherLinesUnchanged ==
  Finished =>
    \A i \in TemplatePositions :
      ~is_assignment(lines[i]) => processed_lines[i] = lines[i]

(***************************************************************************)
(* C8.                                                                     *)
(***************************************************************************)
\* C8 as stated: an assignment line whose value contains no sentinel, no
\* bare-default token and no "${" equals its output line exactly, the
\* presence or absence of the trailing newline included.
C8_ConcreteLinesIdentical ==
  Finished =>
    \A i \in TemplatePositions :
      ( /\ is_assignment(lines[i])
        /\ ~HasSentinel(ValueOf(lines[i]))
        /\ \A token \in BareDefaultTokens : ~contains(ValueOf(lines[i]), token)
        /\ ~contains(ValueOf(lines[i]), "${") )
        => processed_lines[i] = lines[i]

\* C8 amended: an assignment line that contains no sentinel, whose value
\* contains no bare-default token and no "${", whose key is not a
\* database-password key and which is not an admin-credential line with an
\* empty value, has the same key text and the same value, surrounding
\* whitespace included, in the output; the output line always ends with a
\* newline, which is added when the template line lacks it.
C8_ConcreteLinesKept ==
  Finished =>
    \A i \in TemplatePositions :
      ( /\ is_assignment(lines[i])
        /\ ~HasSentinel(lines[i])
        /\ \A token \in BareDefaultTokens : ~contains(ValueOf(lines[i]), token)
        /\ ~contains(ValueOf(lines[i]), "${")
        /\ ~HasDatabasePasswordKey(lines[i])
        /\ ~IsEmptyAdminLine(lines[i]) )
        => processed_lines[i] = WithNewline(lines[i])

\* a run has finished on a template whose last line is such a line, has
\* whitespace around its value and lacks the newline
C8_Witness ==
  /\ Finished
  /\ \E i \in TemplatePositions :
       /\ is_assignment(lines[i])
       /\ ~HasSentinel(lines[i])
       /\ \A token \in BareDefaultTokens : ~contains(ValueOf(lines[i]), token)
       /\ ~contains(ValueOf(lines[i]), "${")
       /\ ~HasDatabasePasswordKey(lines[i])
       /\ ~IsEmptyAdminLine(lines[i])
       /\ strip(ValueOf(lines[i])) # ValueOf(lines[i])
       /\ WithNewline(lines[i]) # lines[i]

(***************************************************************************)
(* C9.                                                                     *)
(***************************************************************************)
\* C9: the output list is one line per template line, in the template's
\* order, line i of the output being line i of the template with at most
\* its value substituted (an assignment keeps its key, any other line is
\* unchanged), followed by zero, one or two appended admin-credential lines.
C9_OneLinePerTemplateLine ==
  Finished =>
    /\ Len(processed_lines) - Len(lines) \in 0..2
    /\ \A i \in TemplatePositions :
         IF is_assignment(lines[i])
         THEN contains(processed_lines[i], "=")
              /\ KeyOf(processed_lines[i]) = KeyOf(lines[i])
         ELSE processed_lines[i] = lines[i]
    /\ \A i \in (Len(lines) + 1)..Len(processed_lines) :
         \/ startswith(processed_lines[i], ADMIN_USERNAME_PREFIX)
         \/ startswith(processed_lines[i], ADMIN_PASSWORD_PREFIX)

(***************************************************************************)
(* C10.                                                                    *)
(***************************************************************************)
\* C10 as stated: after reconciliation the output contains exactly one line
\* MLFLOW_ADMIN_USERNAME=... and exactly one line MLFLOW_ADMIN_PASSWORD=...,
\* each with a non-empty value.
C10_ExactlyOneAdminLine ==
  Reconciled =>
    \A prefix \in { ADMIN_USERNAME_PREFIX, ADMIN_PASSWORD_PREFIX } :
      /\ CountLines(processed_lines, prefix) = 1
      /\ \A i \in 1..Len(processed_lines) :
           startswith(processed_lines[i], prefix)
             => strip(split_value(processed_lines[i])) # ""

\* C10 amended: after reconciliation the output contains at least one line
\* MLFLOW_ADMIN_USERNAME=... and at least one line MLFLOW_ADMIN_PASSWORD=...,
\* every such line has a non-empty value, and there is exactly one of a kind
\* when the template has at most one line that starts with that key.
C10_AdminLinesPresent ==
  Reconciled =>
    \A prefix \in { ADMIN_USERNAME_PREFIX, ADMIN_PASSWORD_PREFIX } :
      /\ CountLines(processed_lines, prefix) >= 1
      /\ CountLines(lines, prefix) <= 1 => CountLines(processed_lines, prefix) = 1
      /\ \A i \in 1..Len(processed_lines) :
           startswith(processed_lines[i], prefix)
             => strip(split_value(processed_lines[i])) # ""

\* the reconciler has run on a template that lists the username twice, once
\* of them empty, and has no password line
C10_Witness ==
  /\ Reconciled
  /\ CountLines(lines, ADMIN_USERNAME_PREFIX) = 2
  /\ \E i \in TemplatePositions :
       startswith(lines[i], ADMIN_USERNAME_PREFIX) /\ IsEmptyAdminLine(lines[i])
  /\ CountLines(lines, ADMIN_PASSWORD_PREFIX) = 0
  /\ CountLines(processed_lines, ADMIN_PASSWORD_PREFIX) = 1

(***************************************************************************)
(* C11.                                                                    *)
(***************************************************************************)
\* C11: for a template with no MLFLOW_ADMIN_USERNAME line and no
\* MLFLOW_ADMIN_PASSWORD line, the output list has both lines appended after
\* all template lines, the username exactly admin and the password a
\* generated string of 20 alphanumeric characters.
C11_AdminCredentialsAppended ==
  ( /\ Finished
    /\ CountLines(lines, ADMIN_USERNAME_PREFIX) = 0
    /\ CountLines(lines, ADMIN_PASSWORD_PREFIX) = 0 )
      => /\ Len(processed_lines) = Len(lines) + 2
         /\ processed_lines[Len(lines) + 1] = "MLFLOW_ADMIN_USERNAME=admin\n"
         /\ startswith(processed_lines[Len(lines) + 2], ADMIN_PASSWORD_PREFIX)
         /\ IsPassword(ValueOf(processed_lines[Len(lines) + 2]))
         /\ processed_lines[Len(lines) + 2] = WithNewline(processed_lines[Len(lines) + 2])

\* a run has finished on a template of two lines without admin lines, and
\* two lines follow the template's
C11_Witness ==
  /\ Finished
  /\ Len(lines) = 2
  /\ CountLines(lines, ADMIN_USERNAME_PREFIX) = 0
  /\ CountLines(lines, ADMIN_PASSWORD_PREFIX) = 0
  /\ Len(processed_lines) = 4

(***************************************************************************)
(* C12.                                                                    *)
(***************************************************************************)
\* the line is an admin-credential line with a concrete value: not empty, no
\* sentinel, not a bare default
IsConcreteAdminLine(line) ==
  /\ startswith(line, ADMIN_USERNAME_PREFIX) \/ startswith(line, ADMIN_PASSWORD_PREFIX)
  /\ strip(split_value(line)) # ""
  /\ ~HasSentinel(line)
  /\ \A token \in BareDefaultTokens :
       strip(split_value(line)) \notin { token, "-" \o token }

\* C12: a template line MLFLOW_ADMIN_PASSWORD= whose trimmed value is empty
\* is rewritten at its position to a generated password of 20 alphanumeric
\* characters, an empty MLFLOW_ADMIN_USERNAME= line is rewritten at its
\* position to admin, and an admin line with a concrete value keeps its key
\* and its value: neither the placeholder pass nor the reconciler overwrites
\* it.
C12_AdminLinesReconciledInPlace ==
  Finished =>
    \A i \in TemplatePositions :
      /\ (startswith(lines[i], ADMIN_PASSWORD_PREFIX) /\ IsEmptyAdminLine(lines[i]))
           => /\ startswith(processed_lines[i], ADMIN_PASSWORD_PREFIX)
              /\ IsPassword(ValueOf(processed_lines[i]))
              /\ processed_lines[i] = WithNewline(processed_lines[i])
      /\ (startswith(lines[i], ADMIN_USERNAME_PREFIX) /\ IsEmptyAdminLine(lines[i]))
           => processed_lines[i] = "MLFLOW_ADMIN_USERNAME=admin\n"
      /\ IsConcreteAdminLine(lines[i])
           => /\ KeyOf(processed_lines[i]) = KeyOf(lines[i])
              /\ ValueOf(processed_lines[i]) = ValueOf(lines[i])
              /\ processed_lines[i] = WithNewline(lines[i])

\* a run has finished on a template with an empty password line followed by
\* a concrete one; only the username is appended
C12_Witness ==
  /\ Finished
  /\ Len(lines) = 2
  /\ startswith(lines[1], ADMIN_PASSWORD_PREFIX) /\ IsEmptyAdminLine(lines[1])
  /\ startswith(lines[2], ADMIN_PASSWORD_PREFIX) /\ IsConcreteAdminLine(lines[2])
  /\ Len(processed_lines) = 3
  /\ IsPassword(ValueOf(processed_lines[1]))

(***************************************************************************)
(* Vocabulary of the properties of check_env_file.                         *)
(***************************************************************************)
\* the staleness markers
Markers == { "change_me", "CHANGEME" }

\* some assignment line of the file that is not a comment has a trimmed
\* value that contains a marker
HasMarker(content) ==
  \E i \in 1..Len(readlines(content)) :
    /\ contains(readlines(content)[i], "=")
    /\ ~startswith(strip(readlines(content)[i]), "#")
    /\ \E marker \in Markers :
         contains(strip(split_value(readlines(content)[i])), marker)

\* the lines the loop 90-156 makes of the template lines ls
RECURSIVE ProcessAll(_, _, _, _)
ProcessAll(ls, pgs, seed, pos) ==
  IF ls = << >> THEN [lines |-> << >>, draws |-> 0]
  ELSE the({ the({ [lines |-> << first.line >> \o rest.lines,
                    draws |-> first.draws + rest.draws]
                   : rest \in { ProcessAll(Tail(ls), pgs, seed, pos + first.draws) } })
             : first \in { process_line(Head(ls), pgs, seed, pos) } })

\* the content create_env_from_template writes for a template, when the
\* entropy stream is read from position pos: a function of the template and
\* of the entropy alone
GeneratedEnv(template, seed, pos) ==
  the({ writelines(reconcile_admin(looped.lines, seed,
                                   pos + 20 * Len(PostgresPasswordKeys) + looped.draws).lines)
        : looped \in { ProcessAll(readlines(template),
                                  pregenerate_postgres_passwords(seed, pos), seed,
                                  pos + 20 * Len(PostgresPasswordKeys)) } })

\* check_env_file has returned
Returned == pc \in {"done", "checked"}

(***************************************************************************)
(* C13.                                                                    *)
(***************************************************************************)
\* C13: when .env exists and no assignment line that is not a comment has a
\* trimmed value containing change_me or CHANGEME, check_env_file returns
\* True and writes nothing: .env and .env.example are unchanged, in every
\* run of the script; markers in comments or in keys do not count.
C13_GoodEnvIsLeftAlone ==
  [][ (pc = "check" /\ env.exists /\ ~HasMarker(env.content))
        => /\ pc' = "checked"
           /\ returned' = "True"
           /\ env' = env
           /\ env_example' = env_example ]_vars

\* the second run has found the .env of the first run good again; it has
\* markers in a comment and in a key
C13_Witness ==
  /\ pc = "checked"
  /\ returned = "True"
  /\ invocations = 2
  /\ env = env_before
  /\ contains(env.content, "# change_me")
  /\ contains(env.content, "change_me_KEY=")

(***************************************************************************)
(* C14.                                                                    *)
(***************************************************************************)
\* C14: when .env does not exist and .env.example exists, check_env_file
\* runs create_env_from_template and returns its result, with .env created;
\* when neither exists it returns False and no file is created or modified.
C14_MissingEnvIsCreated ==
  /\ [][ (pc = "check" /\ ~env.exists /\ env_example.exists)
           => (pc' = "start" /\ returned' = "None" /\ env_example' = env_example) ]_vars
  /\ [][ (pc = "check" /\ ~env.exists /\ ~env_example.exists)
           => /\ pc' = "checked"
              /\ returned' = "False"
              /\ env' = env
              /\ env_example' = env_example ]_vars
  /\ []( (Returned /\ ~env_before.exists /\ env_example.exists)
           => /\ pc = "done"
              /\ returned = "True"
              /\ lines = readlines(env_example.content)
              /\ env = File(writelines(processed_lines)) )

\* the first run found no .env, and has created it from the template
C14_Witness ==
  /\ pc = "done"
  /\ returned = "True"
  /\ invocations = 1
  /\ ~env_before.exists
  /\ env.exists
  /\ Len(processed_lines) > 2

(***************************************************************************)
(* C15.                                                                    *)
(***************************************************************************)
\* C15: when .env exists and some assignment value contains a marker,
\* check_env_file calls create_env_from_template; the .env this writes is
\* computed from .env.example (and the entropy) alone and replaces the
\* previous .env completely.
C15_StaleEnvIsRegenerated ==
  /\ [][ (pc = "check" /\ env.exists /\ HasMarker(env.content))
           => (pc' = "start" /\ returned' = "None" /\ env' = env) ]_vars
  /\ []( (Finished /\ env_before.exists /\ HasMarker(env_before.content))
           => /\ lines = readlines(env_example.content)
              /\ env = File(writelines(processed_lines))
              /\ \E pos \in 0..(Len(rng) - 1) :
                   env.content = GeneratedEnv(env_example.content, rng, pos) )

\* a run has replaced a stale .env that had a line the template lacks
C15_Witness ==
  /\ Finished
  /\ env_before.exists
  /\ HasMarker(env_before.content)
  /\ contains(env_before.content, "KEEP=legacy")
  /\ ~contains(env.content, "KEEP=legacy")
  /\ contains(env.content, "PORT=5000")

(***************************************************************************)
(* C16.                                                                    *)
(***************************************************************************)
\* C16: if .env.example does not exist when create_env_from_template is
\* called, the function returns its failure value to the caller and .env is
\* neither created nor modified.
C16_MissingTemplateFails ==
  /\ [][ (pc = "start" /\ ~env_example.exists)
           => /\ pc' = "done"
              /\ returned' = "False"
              /\ env' = env
              /\ env_example' = env_example ]_vars
  /\ []( (pc = "done" /\ ~env_example.exists)
           => (returned = "False" /\ env = env_before) )

\* the regeneration of a stale .env has failed for want of a template, and
\* the stale .env is still there
C16_Witness ==
  /\ pc = "done"
  /\ returned = "False"
  /\ ~env_example.exists
  /\ env.exists
  /\ HasMarker(env.content)
  /\ env = env_before

(***************************************************************************)
(* C17.                                                                    *)
(***************************************************************************)
\* C17: the template file is never modified; .env is changed only by the
\* write step, after the whole line list has been computed; and whatever
\* step fails, a run leaves .env either rewritten with the complete new
\* content or exactly as it was, never partially written or truncated.
C17_EnvWrittenCompletelyOrNotAtAll ==
  /\ [][ env_example' = env_example ]_vars
  /\ [][ env' # env => pc \in {"write", "writing"} ]_vars
  /\ []( Returned
           => \/ env = env_before
              \/ returned = "True" /\ env = File(writelines(processed_lines)) )

(***************************************************************************)
(* C18.                                                                    *)
(***************************************************************************)
\* s is a secret of the kind a bare-default token stands for
HasDefaultKind(s, token) ==
  IF token \in { "mysecret", "mysalt" } THEN IsLowerHex(s, 32) ELSE IsPassword(s)

\* the output of a line that is subject to the bare-default rule alone
BareDefaultApplied(line, out) ==
  IF strip(ValueOf(line)) \in BareDefaultTokens
  THEN /\ KeyOf(out) = KeyOf(line)
       /\ HasDefaultKind(ValueOf(out), strip(ValueOf(line)))
       /\ out = WithNewline(out)
  ELSE IF \E token \in BareDefaultTokens : strip(ValueOf(line)) = "-" \o token
  THEN /\ KeyOf(out) = KeyOf(line)
       /\ Len(ValueOf(out)) > 1
       /\ CharAt(ValueOf(out), 1) = "-"
       /\ HasDefaultKind(SubSeq(ValueOf(out), 2, Len(ValueOf(out))),
                         SubSeq(strip(ValueOf(line)), 2, Len(strip(ValueOf(line)))))
       /\ out = WithNewline(out)
  ELSE /\ KeyOf(out) = KeyOf(line)
       /\ ValueOf(out) = ValueOf(line)

\* C18 as stated: for an assignment line whose value contains no "${" and no
\* sentinel, the value is replaced only when its trimmed form is a
\* bare-default token or that token after a single "-"; the secret then
\* stands alone or after the "-"; any other value is left unchanged.
C18_BareDefaultExactMatchOnly ==
  Finished =>
    \A i \in TemplatePositions :
      ( /\ is_assignment(lines[i])
        /\ ~contains(ValueOf(lines[i]), "${")
        /\ ~HasSentinel(ValueOf(lines[i])) )
        => BareDefaultApplied(lines[i], processed_lines[i])

\* C18 amended: the same, for the lines whose key is not a database-password
\* key (their value is regenerated whatever it is) and that are not admin
\* lines with an empty value (the reconciler fills them in); the secret is
\* 32 lowercase hex characters for mysecret and mysalt and a password of 20
\* alphanumeric characters for the other tokens, and the whitespace around a
\* replaced value is dropped.
C18_BareDefaultExactMatchOfOtherKeys ==
  Finished =>
    \A i \in TemplatePositions :
      ( /\ is_assignment(lines[i])
        /\ ~contains(ValueOf(lines[i]), "${")
        /\ ~HasSentinel(lines[i])
        /\ ~HasDatabasePasswordKey(lines[i])
        /\ ~IsEmptyAdminLine(lines[i]) )
        => BareDefaultApplied(lines[i], processed_lines[i])

\* a run has finished on a line whose value is a token after "-" and on
\* which the secret follows the "-"
C18_Witness ==
  /\ Finished
  /\ \E i \in TemplatePositions :
       /\ is_assignment(lines[i])
       /\ ~HasDatabasePasswordKey(lines[i])
       /\ strip(ValueOf(lines[i])) = "-postgres"
       /\ ValueOf(processed_lines[i]) # ValueOf(lines[i])
       /\ CharAt(ValueOf(processed_lines[i]), 1) = "-"

(***************************************************************************)
(* The secret generators called on their own (deploy_stack.py 52-63).      *)
(***************************************************************************)
\* the largest length that is requested explicitly
MaxLength == 5

\* def generate_secure_password(length=16)
DefaultPasswordLength == 16

\* def generate_secret_key(length=64)
DefaultKeyLength == 64

\* no function has been called yet
GenInit ==
  /\ env_example = NoFile
  /\ env = NoFile
  /\ rng \in Seeds
  /\ rng_pos = 0
  /\ call = << >>
  /\ pc = "idle"
  /\ lines = << >>
  /\ postgres_passwords = << >>
  /\ processed_lines = << >>
  /\ returned = "None"
  /\ env_before = NoFile
  /\ invocations = 0
  /\ run_start = 0
  /\ previous_run = NoRun
  /\ OtherProgramsIdle

\* generate_secure_password(n), and generate_secure_password() with the
\* default length
CallGenerateSecurePassword ==
  /\ pc = "idle"
  /\ \/ \E n \in 0..MaxLength :
          /\ call' = << "generate_secure_password", n >>
          /\ returned' = generate_secure_password(rng, rng_pos, n)
          /\ rng_pos' = Advance(rng_pos, n)
     \/ /\ call' = << "generate_secure_password" >>
        /\ returned' = generate_secure_password(rng, rng_pos, DefaultPasswordLength)
        /\ rng_pos' = Advance(rng_pos, DefaultPasswordLength)
  /\ UNCHANGED << env_example, env, rng, pc, lines, postgres_passwords,
                  processed_lines, env_before, invocations,
                  run_start, previous_run, other_programs >>

\* generate_secret_key(n), and generate_secret_key() with the default length
CallGenerateSecretKey ==
  /\ pc = "idle"
  /\ \/ \E n \in 0..MaxLength :
          /\ call' = << "generate_secret_key", n >>
          /\ returned' = generate_secret_key(rng, rng_pos, n)
          /\ rng_pos' = Advance(rng_pos, n \div 2)
     \/ /\ call' = << "generate_secret_key" >>
        /\ returned' = generate_secret_key(rng, rng_pos, DefaultKeyLength)
        /\ rng_pos' = Advance(rng_pos, DefaultKeyLength \div 2)
  /\ UNCHANGED << env_example, env, rng, pc, lines, postgres_passwords,
                  processed_lines, env_before, invocations,
                  run_start, previous_run, other_programs >>

\* generate_salt()
CallGenerateSalt ==
  /\ pc = "idle"
  /\ call' = << "generate_salt" >>
  /\ returned' = generate_salt(rng, rng_pos)
  /\ rng_pos' = Advance(rng_pos, 16)
  /\ UNCHANGED << env_example, env, rng, pc, lines, postgres_passwords,
                  processed_lines, env_before, invocations,
                  run_start, previous_run, other_programs >>

GenNext ==
  \/ CallGenerateSecurePassword
  \/ CallGenerateSecretKey
  \/ CallGenerateSalt

GenSpec == GenInit /\ [][GenNext]_vars

\* the length a call asked for: its argument, or the default
RequestedLength(default) == IF Len(call) = 2 THEN call[2] ELSE default

(***************************************************************************)
(* C19.                                                                    *)
(***************************************************************************)
\* C19: generate_secret_key(n) returns exactly n lowercase hexadecimal
\* characters for every n >= 0 (64 by default), and generate_salt() returns
\* exactly 32 lowercase hexadecimal characters.
C19_HexOfRequestedLength ==
  /\ (call # << >> /\ call[1] = "generate_secret_key")
       => IsLowerHex(returned, RequestedLength(DefaultKeyLength))
  /\ (call # << >> /\ call[1] = "generate_salt") => IsLowerHex(returned, 32)

(***************************************************************************)
(* C20.                                                                    *)
(***************************************************************************)
\* C20: generate_secure_password(n) returns exactly n characters, each of
\* [A-Za-z0-9], for every n >= 0 (16 by default); it always returns a
\* string.
C20_PasswordOfRequestedLength ==
  (call # << >> /\ call[1] = "generate_secure_password")
    => IsStringOf(returned, AlphanumericChars, RequestedLength(DefaultPasswordLength))

\* generate_secure_password(3) has returned three characters that are not
\* all the same, and the call before it was of another function
C20_Witness ==
  /\ call = << "generate_secure_password", 3 >>
  /\ Len(returned) = 3
  /\ CharAt(returned, 1) # CharAt(returned, 2)
  /\ rng_pos # 3

(***************************************************************************)
(* Two executions of the script against the same directory.  Each runs     *)
(* check_env_file (227-272) and, where it regenerates, the pipeline of     *)
(* create_env_from_template (65-203) on its own entropy.  Each has its own *)
(* file object for .env: open(env_path, 'w') truncates the shared file and *)
(* starts at offset 0 (198); writelines (199) hands the lines to a         *)
(* buffered writer, which reaches the file in several writes when the      *)
(* lines exceed its buffer, the last of them when the with block closes    *)
(* the file.  Nothing locks .env and nothing renames a finished file into  *)
(* place.                                                                  *)
(***************************************************************************)
\* the buffer of the file object of line 198, scaled to the model's files
BufferSize == 80

Writers == {1, 2}

\* where in the entropy stream an execution starts to read
WriterStarts == {0, 3}

\* templates of the concurrent executions: the output of the first fits
\* the buffer, the others need two writes
RaceTemplates == {
  "",
  "PORT=5000\n",
  "MLFLOW_POSTGRES_PASSWORD=s3cr3t\n" }

\* a .env that makes check_env_file regenerate
StaleEnv == "KEY=change_me_with_a_secure_key\n"

\* a byte of a hole, left where a write lands beyond the end of the file;
\* it reads as NUL and is written here as a character no line holds
Hole == "@"

RECURSIVE Holes(_)
Holes(n) == IF n <= 0 THEN "" ELSE Hole \o Holes(n - 1)

\* the file after write(2) of data at offset: the bytes before the offset
\* and behind the data stay, a gap is filled with holes
write_at(content, offset, data) ==
  SubSeq(content, 1, Min({offset, Len(content)}))
    \o Holes(offset - Len(content))
    \o data
    \o SubSeq(content, offset + Len(data) + 1, Len(content))

\* how many of the lines from index first on the buffer takes before it
\* has to be flushed: whole lines while they fit, one line at least
RECURSIVE buffered_lines(_, _, _)
buffered_lines(ls, first, room) ==
  IF first > Len(ls) \/ Len(ls[first]) > room THEN 0
  ELSE 1 + buffered_lines(ls, first + 1, room - Len(ls[first]))

next_flush(ls, first) ==
  IF first > Len(ls) THEN 0
  ELSE the({ IF n = 0 THEN 1 ELSE n : n \in { buffered_lines(ls, first, BufferSize) } })

\* lines 76-195 as a function of the template and the entropy: the list
\* create_env_from_template hands to writelines
GeneratedLines(template, seed, pos) ==
  the({ reconcile_admin(looped.lines, seed,
                        pos + 20 * Len(PostgresPasswordKeys) + looped.draws).lines
        : looped \in { ProcessAll(readlines(template),
                                  pregenerate_postgres_passwords(seed, pos), seed,
                                  pos + 20 * Len(PostgresPasswordKeys)) } })

Writer(pos) ==
  [pc |-> "check", pos |-> pos, processed_lines |-> << >>, flushed |-> 0,
   offset |-> 0, returned |-> "None"]

\* both executions are started; .env is absent or stale
RaceInit ==
  /\ env_example \in { File(c) : c \in RaceTemplates }
  /\ env \in { NoFile, File(StaleEnv) }
  /\ rng \in Seeds
  /\ rng_pos = 0
  /\ call = << >>
  /\ pc = "idle"
  /\ lines = << >>
  /\ postgres_passwords = << >>
  /\ processed_lines = << >>
  /\ returned = "None"
  /\ env_before = env
  /\ invocations = 0
  /\ run_start = 0
  /\ previous_run = NoRun
  /\ writers \in [Writers -> { Writer(pos) : pos \in WriterStarts }]
  /\ ScriptsIdle

\* what the execution w leaves alone
WriterFrame ==
  UNCHANGED << env_example, rng, rng_pos, call, pc, lines, postgres_passwords,
               processed_lines, returned, env_before, invocations, run_start,
               previous_run, scripts >>

\* lines 232-272 in execution w: .env is missing or holds a placeholder and
\* is regenerated, or it looks good
WriterCheck(w) ==
  /\ writers[w].pc = "check"
  /\ writers' = [writers EXCEPT ![w] =
       IF ~env.exists \/ found_placeholders(readlines(env.content))
       THEN [@ EXCEPT !.pc = "start"]
       ELSE [@ EXCEPT !.pc = "checked", !.returned = "True"]]
  /\ UNCHANGED env
  /\ WriterFrame

\* lines 70-195 in execution w: the line list from the template
WriterGenerate(w) ==
  /\ writers[w].pc = "start"
  /\ env_example.exists
  /\ writers' = [writers EXCEPT ![w] =
       [@ EXCEPT !.pc = "write",
                 !.processed_lines =
                    GeneratedLines(env_example.content, rng, writers[w].pos)]]
  /\ UNCHANGED env
  /\ WriterFrame

\* line 198 in execution w: open(env_path, 'w') truncates .env
WriterOpen(w) ==
  /\ writers[w].pc = "write"
  /\ env' = File("")
  /\ writers' = [writers EXCEPT ![w] = [@ EXCEPT !.pc = "writing", !.offset = 0]]
  /\ WriterFrame

\* line 199 in execution w: the buffer is flushed to .env at the offset of
\* w's file object; after the last flush the file is closed and True is
\* returned (203)
WriterFlush(w) ==
  /\ writers[w].pc = "writing"
  /\ \E n \in { next_flush(writers[w].processed_lines, writers[w].flushed + 1) } :
     \E data \in { writelines(SubSeq(writers[w].processed_lines,
                                     writers[w].flushed + 1,
                                     writers[w].flushed + n)) } :
       /\ env' = File(write_at(env.content, writers[w].offset, data))
       /\ writers' = [writers EXCEPT ![w] =
            [@ EXCEPT !.flushed = @ + n,
                      !.offset = @ + Len(data),
                      !.pc = IF writers[w].flushed + n
                                  >= Len(writers[w].processed_lines)
                             THEN "done" ELSE "writing",
                      !.returned = IF writers[w].flushed + n
                                        >= Len(writers[w].processed_lines)
                                   THEN "True" ELSE "None"]]
  /\ WriterFrame

RaceNext ==
  \E w \in Writers :
    \/ WriterCheck(w)
    \/ WriterGenerate(w)
    \/ WriterOpen(w)
    \/ WriterFlush(w)

RaceSpec == RaceInit /\ [][RaceNext]_vars

\* the complete content execution w computed
WriterContent(w) == writelines(writers[w].processed_lines)

\* both executions have returned and both have written .env
BothWrote == \A w \in Writers : writers[w].pc = "done"

(***************************************************************************)
(* C21.                                                                    *)
(***************************************************************************)
\* C21: when two invocations of check_env_file / create_env_from_template
\* run concurrently against the same .env, the final .env is in every
\* interleaving the complete line list of exactly one of them, never a
\* mixture of lines or secrets of both.
C21_FinalEnvIsOneWritersOutput ==
  BothWrote => \E w \in Writers : env = File(WriterContent(w))

(***************************************************************************)
(* C22.                                                                    *)
(***************************************************************************)
\* the previous invocation generated a .env and this one has generated
\* another from the same template
TwoRuns == Finished /\ previous_run.generated

\* the index of the database-password key of a line in the dict of 84-88
DatabasePasswordIndex(line) ==
  CHOOSE k \in 1..Len(PostgresPasswordKeys) :
    strip(KeyOf(line)) = PostgresPasswordKeys[k]

\* the twenty draws read from position a select the same characters as the
\* twenty read from position b
SameChoices(a, b) ==
  \A j \in 0..19 :
    Draw(rng, a, j) % Len(characters) = Draw(rng, b, j) % Len(characters)

CheckedAfterGeneration == previous_run.generated /\ pc # "check"

\* C23: generation converges: for every template, after
\* create_env_from_template has succeeded, an immediately following
\* check_env_file with the template unchanged finds no staleness marker in
\* the generated .env and leaves it unchanged.
C23_GenerationConverges ==
  CheckedAfterGeneration =>
    /\ pc = "checked"
    /\ returned = "True"
    /\ env = env_before
    /\ ~HasMarker(env.content)

(***************************************************************************)
(* C24.                                                                    *)
(***************************************************************************)
\* check_env_file was called with a .env that holds a staleness marker and
\* without .env.example
StaleWithoutTemplate ==
  /\ env_before.exists
  /\ HasMarker(env_before.content)
  /\ ~env_example.exists

\* C24: when .env exists and contains a staleness marker but .env.example
\* does not exist, check_env_file returns failure, and the existing .env is
\* byte for byte what it was at every point of the call: it is neither
\* truncated nor deleted.
C24_StaleEnvSurvivesMissingTemplate ==
  StaleWithoutTemplate =>
    /\ env = env_before
    /\ Returned => returned = "False"

\* the first call of check_env_file has returned failure on a stale .env
\* without a template
C24_Witness ==
  /\ StaleWithoutTemplate
  /\ call = << "check_env_file" >>
  /\ invocations = 1
  /\ Returned
  /\ returned = "False"
  /\ env = env_before

(***************************************************************************)
(* C25.                                                                    *)
(***************************************************************************)
\* the password the draws at the start of the run spell for the k-th
\* database-password key
PasswordDrawnAtStart(k) ==
  generate_secure_password(rng, run_start + 20 * (k - 1), 20)

\* C25: within one run the password of each database-password key is
\* generated once, before any line is processed, and stays what it is while
\* the lines are processed; every template line with that key receives this
\* value, wherever the line stands and whatever was substituted in the
\* other lines.
C25_DatabasePasswordFixedBeforeTheLoop ==
  /\ (pc = "loop" \/ Reconciled) =>
       \A k \in 1..Len(PostgresPasswordKeys) :
         /\ postgres_passwords[k].key = PostgresPasswordKeys[k]
         /\ postgres_passwords[k].password = PasswordDrawnAtStart(k)
  /\ Finished =>
       \A i \in TemplatePositions :
         HasDatabasePasswordKey(lines[i]) =>
           /\ ValueOf(processed_lines[i])
                = PasswordDrawnAtStart(DatabasePasswordIndex(lines[i]))
           /\ \A j \in TemplatePositions :
                (/\ HasDatabasePasswordKey(lines[j])
                 /\ DatabasePasswordIndex(lines[j]) = DatabasePasswordIndex(lines[i]))
                  => ValueOf(processed_lines[j]) = ValueOf(processed_lines[i])

\* a run has finished on a template with two lines of the same
\* database-password key, on entropy that does not repeat a single draw
C25_Witness ==
  /\ Finished
  /\ Len(rng) > 1
  /\ Len(lines) = 2
  /\ HasDatabasePasswordKey(lines[1])
  /\ HasDatabasePasswordKey(lines[2])
  /\ DatabasePasswordIndex(lines[1]) = DatabasePasswordIndex(lines[2])
  /\ ValueOf(processed_lines[1]) = ValueOf(processed_lines[2])

(***************************************************************************)
(* C26.                                                                    *)
(***************************************************************************)
\* orders of the nine sentinels: the order of the source, its reverse, and
\* every order that moves one sentinel to the front
ListOrder == [i \in 1..Len(PlaceholderTable) |-> i]

Reversed(order) == [i \in 1..Len(order) |-> order[Len(order) + 1 - i]]

MovedToFront(order, k) ==
  << order[k] >> \o SubSeq(order, 1, k - 1) \o SubSeq(order, k + 1, Len(order))

SentinelOrders ==
  { ListOrder, Reversed(ListOrder) }
    \cup { MovedToFront(ListOrder, k) : k \in 2..Len(ListOrder) }
    \cup { MovedToFront(Reversed(ListOrder), k) : k \in 2..Len(ListOrder) }

\* the loop is about to process a line
AtLine == pc = "loop" /\ Len(processed_lines) < Len(lines)

\* C26: the sentinel substitution pass is independent of the order in which
\* the nine sentinels are applied: for every input line, applying the
\* replacements in any permutation of the sentinel list replaces the same
\* positions and so yields the same line as the order of the source.
C26_SentinelOrderIrrelevant ==
  AtLine =>
    \A order \in SentinelOrders :
      replace_placeholders_in_order(lines[Len(processed_lines) + 1], order,
                                    rng, rng_pos)
        = replace_placeholders(lines[Len(processed_lines) + 1], 1, rng, rng_pos)

(***************************************************************************)
(* deploy_stack.py as a process: main (315-371) with its four steps,       *)
(* check_env_file being the pipeline above, and validate_deployment        *)
(* (298-313) calling main of validate_services.py (75-154), which parses   *)
(* the command line of the process it runs in.                             *)
(***************************************************************************)
\* command lines of `python scripts/deploy_stack.py ...`
Arguments == { << >>, << "--wait", "0" >>, << "--help" >>, << "--force" >> }

\* parser.parse_args() of validate_services.main (76-79): the only option
\* is --wait / -w with an integer; argparse prints the help and exits with
\* 0 for -h / --help, and exits with 2 for anything it does not know
parse_args(args) ==
  IF args = << >> THEN "parsed"
  ELSE IF Head(args) \in { "-h", "--help" } THEN "help"
  ELSE IF Head(args) \in { "-w", "--wait" } /\ Len(args) = 2 THEN "parsed"
  ELSE "error"

\* the templates and .env files main is started with
MainTemplates == { "PORT=5000\n", "KEY=change_me_with_a_secure_key\n# change_me\n" }
MainEnvFiles == { "PORT=5000\n", "X= CHANGEME" }

\* the commands deploy_stack issues (278, 281, 286)
DOWN == "docker-compose down -v"
PULL == "docker-compose pull"
UP == "docker-compose up -d --build"
DeployCommands == { DOWN, PULL, UP }

\* the eight checks of validate_services.main in the order of 115-131
ServiceChecks == <<
  "MLflow PostgreSQL", "MLflow Auth PostgreSQL", "MLflow MinIO", "MLflow Server",
  "Langfuse PostgreSQL", "Langfuse MinIO", "Langfuse ClickHouse", "Langfuse Web" >>

env_vars == << env_example, env, rng, rng_pos, call, pc, lines, postgres_passwords,
               processed_lines, returned, env_before, invocations, run_start,
               previous_run >>
main_vars == << argv, main_pc, steps, commands, exit_code >>
validate_vars == << validate_pc, results, validation, deployment_valid >>
manager_vars == << client, calls, vendor_calls >>
setup_vars == << setup_pc, entered, admin_passwords >>

Step(name, result) == [step |-> name, result |-> result]

\* the process has been started: main is at line 324
MainInit ==
  /\ env_example \in {NoFile} \cup { File(c) : c \in MainTemplates }
  /\ env \in {NoFile} \cup { File(c) : c \in MainEnvFiles }
  /\ rng \in Seeds
  /\ rng_pos = 0
  /\ call = << >>
  /\ pc = "idle"
  /\ lines = << >>
  /\ postgres_passwords = << >>
  /\ processed_lines = << >>
  /\ returned = "None"
  /\ env_before = env
  /\ invocations = 1
  /\ run_start = 0
  /\ previous_run = NoRun
  /\ writers = NoWriters
  /\ argv \in Arguments
  /\ main_pc = "check_prerequisites"
  /\ steps = << >>
  /\ commands = << >>
  /\ exit_code = "None"
  /\ validate_pc = "idle"
  /\ results = << >>
  /\ validation = "None"
  /\ deployment_valid = "None"
  /\ client = "None"
  /\ calls = << >>
  /\ vendor_calls = << >>
  /\ setup_pc = "idle"
  /\ entered = << >>
  /\ admin_passwords = << >>

\* lines 324-325 with check_prerequisites (205-225): docker on the PATH,
\* docker-compose on the PATH or the compose plugin, the daemon running
CheckPrerequisites ==
  /\ main_pc = "check_prerequisites"
  /\ \E docker \in BOOLEAN, compose \in { "docker-compose", "plugin", "none" },
        daemon \in BOOLEAN :
       /\ commands' = commands
            \o (IF docker /\ compose # "docker-compose"
                THEN << "docker compose version" >> ELSE << >>)
            \o (IF docker /\ compose # "none" THEN << "docker info" >> ELSE << >>)
       /\ IF docker /\ compose # "none" /\ daemon
          THEN /\ steps' = Append(steps, Step("check_prerequisites", "True"))
               /\ main_pc' = "check_env_file"
               /\ pc' = "check"
               /\ call' = << "check_env_file" >>
               /\ exit_code' = exit_code
          ELSE /\ steps' = Append(steps, Step("check_prerequisites", "False"))
               /\ main_pc' = "exited"
               /\ exit_code' = "1"
               /\ UNCHANGED << pc, call >>
  /\ UNCHANGED << env_example, env, rng, rng_pos, lines, postgres_passwords,
                  processed_lines, returned, env_before, invocations, run_start,
                  previous_run, writers, argv, validate_vars, manager_vars,
                  setup_vars >>

\* lines 328-330: check_env_file has returned, or an exception has left it
\* and ends the process with a traceback and exit code 1
CheckEnvFileReturned ==
  /\ main_pc = "check_env_file"
  /\ pc \in {"done", "checked"}
  /\ steps' = Append(steps, Step("check_env_file", returned))
  /\ IF returned = "True"
     THEN main_pc' = "deploy_stack" /\ exit_code' = exit_code
     ELSE main_pc' = "exited" /\ exit_code' = "1"
  /\ UNCHANGED << env_vars, writers, argv, commands, validate_vars, manager_vars,
                  setup_vars >>

\* lines 278-279: existing containers are stopped, the result is ignored
DeployDown ==
  /\ main_pc = "deploy_stack"
  /\ commands' = Append(commands, DOWN)
  /\ main_pc' = "pull"
  /\ UNCHANGED << env_vars, writers, argv, steps, exit_code, validate_vars,
                  manager_vars, setup_vars >>

\* lines 281-282 (and 333-334 when the pull fails)
DeployPull ==
  /\ main_pc = "pull"
  /\ commands' = Append(commands, PULL)
  /\ \E ok \in BOOLEAN :
       IF ok
       THEN main_pc' = "up" /\ UNCHANGED << steps, exit_code >>
       ELSE /\ steps' = Append(steps, Step("deploy_stack", "False"))
            /\ main_pc' = "exited"
            /\ exit_code' = "1"
  /\ UNCHANGED << env_vars, writers, argv, validate_vars, manager_vars, setup_vars >>

\* lines 286-296 (and 333-334 when the services do not start)
DeployUp ==
  /\ main_pc = "up"
  /\ commands' = Append(commands, UP)
  /\ \E ok \in BOOLEAN :
       IF ok
       THEN /\ steps' = Append(steps, Step("deploy_stack", "True"))
            /\ main_pc' = "validate_deployment"
            /\ exit_code' = exit_code
       ELSE /\ steps' = Append(steps, Step("deploy_stack", "False"))
            /\ main_pc' = "exited"
            /\ exit_code' = "1"
  /\ UNCHANGED << env_vars, writers, argv, validate_vars, manager_vars, setup_vars >>

\* line 304 and validate_services.main 76-79: the command line of the
\* process is parsed; SystemExit of argparse is no Exception, so line 310
\* does not catch it and it ends the process
ParseArgs ==
  /\ main_pc = "validate_deployment"
  /\ validate_pc = "idle"
  /\ \E parsed \in { parse_args(argv) } :
       IF parsed = "parsed"
       THEN /\ validate_pc' = "checks"
            /\ UNCHANGED << main_pc, steps, exit_code >>
       ELSE /\ validate_pc' = "exited"
            /\ steps' = Append(steps, Step("validate_deployment", "SystemExit"))
            /\ main_pc' = "exited"
            /\ exit_code' = IF parsed = "help" THEN "0" ELSE "2"
  /\ UNCHANGED << env_vars, writers, argv, commands, results, validation,
                  deployment_valid, manager_vars, setup_vars >>

\* a variant of ServiceCheck: the checks stop at the first failure
ServiceCheck_until_failure ==
  /\ validate_pc = "checks"
  /\ Len(results) < Len(ServiceChecks)
  /\ \E outcome \in { "True", "False", "raises" } :
       IF outcome = "raises"
       THEN /\ validation' = "Exception"
            /\ validate_pc' = "raised"
            /\ UNCHANGED results
       ELSE /\ results' = Append(results, outcome = "True")
            /\ IF outcome = "True"
               THEN UNCHANGED << validation, validate_pc >>
               ELSE validation' = "1" /\ validate_pc' = "returned"
  /\ UNCHANGED << env_vars, writers, main_vars, deployment_valid, manager_vars,
                  setup_vars >>

\* one of lines 115-131: the next check is made and its result appended;
\* check_postgres, check_minio and check_service_health return True or
\* False and catch psycopg2.Error / RequestException only (33, 53, 71), any
\* other exception leaves main
ServiceCheck ==
  /\ validate_pc = "checks"
  /\ Len(results) < Len(ServiceChecks)
  /\ \E outcome \in { "True", "False", "raises" } :
       IF outcome = "raises"
       THEN /\ validation' = "Exception"
            /\ validate_pc' = "raised"
            /\ UNCHANGED results
       ELSE /\ results' = Append(results, outcome = "True")
            /\ UNCHANGED << validation, validate_pc >>
  /\ UNCHANGED << env_vars, writers, main_vars, deployment_valid, manager_vars,
                  setup_vars >>

\* passed = sum(results)                                        (136)
passed(rs) == Cardinality({ i \in 1..Len(rs) : rs[i] })

\* lines 136-154: return 0 if passed == total else 1
Summary ==
  /\ validate_pc = "checks"
  /\ Len(results) = Len(ServiceChecks)
  /\ validation' = IF passed(results) = Len(results) THEN "0" ELSE "1"
  /\ validate_pc' = "returned"
  /\ UNCHANGED << env_vars, writers, main_vars, results, deployment_valid,
                  manager_vars, setup_vars >>

\* lines 305-313: False if the result is not 0 or an Exception was caught
ValidateDeploymentReturns ==
  /\ validate_pc \in { "returned", "raised" }
  /\ deployment_valid' = IF validate_pc = "returned" /\ validation = "0"
                         THEN "True" ELSE "False"
  /\ validate_pc' = "done"
  /\ UNCHANGED << env_vars, writers, main_vars, results, validation, manager_vars,
                  setup_vars >>

\* lines 337-371: exit with 1, or print the summary and reach the end of main
MainValidated ==
  /\ main_pc = "validate_deployment"
  /\ validate_pc = "done"
  /\ steps' = Append(steps, Step("validate_deployment", deployment_valid))
  /\ main_pc' = "exited"
  /\ exit_code' = IF deployment_valid = "True" THEN "0" ELSE "1"
  /\ UNCHANGED << env_vars, writers, argv, commands, validate_vars, manager_vars,
                  setup_vars >>

MainNext ==
  \/ CheckPrerequisites
  \/ CheckEnvMissing
  \/ CheckEnvCreate
  \/ CheckEnvRegenerate
  \/ CheckEnvGood
  \/ TemplateNotFound
  \/ ReadTemplate
  \/ ProcessLine
  \/ ReconcileAdmin
  \/ OpenEnv
  \/ WriteEnv
  \/ ReadFails
  \/ OpenFails
  \/ WriteFails
  \/ CheckEnvFileReturned
  \/ DeployDown
  \/ DeployPull
  \/ DeployUp
  \/ ParseArgs
  \/ ServiceCheck
  \/ Summary
  \/ ValidateDeploymentReturns
  \/ MainValidated

MainSpec == MainInit /\ [][MainNext]_vars

\* the names of the steps of main in the order of lines 324-338
StepOrder ==
  << "check_prerequisites", "check_env_file", "deploy_stack", "validate_deployment" >>

(***************************************************************************)
(* C27.                                                                    *)
(***************************************************************************)
\* C27: in main the steps run in the order check_prerequisites,
\* check_env_file, deploy_stack, validate_deployment; a step runs only if
\* every earlier step returned True, the first failing step ends the
\* process with exit code 1, and no container command of deploy_stack is
\* issued unless check_env_file succeeded.
C27_StepsInOrderFirstFailureExits1 ==
  /\ Len(steps) <= Len(StepOrder)
  /\ \A i \in 1..Len(steps) :
       /\ steps[i].step = StepOrder[i]
       /\ i < Len(steps) => steps[i].result = "True"
  /\ (steps # << >> /\ steps[Len(steps)].result # "True")
       => (main_pc = "exited" /\ exit_code = "1")
  /\ exit_code \in { "None", "0", "1" }
  /\ exit_code = "0" => (Len(steps) = Len(StepOrder)
                          /\ \A i \in 1..Len(steps) : steps[i].result = "True")
  /\ (\E i \in 1..Len(commands) : commands[i] \in DeployCommands)
       => (Len(steps) >= 2 /\ steps[2] = Step("check_env_file", "True"))

(***************************************************************************)
(* C30.                                                                    *)
(***************************************************************************)
\* main of validate_services.py has returned a value
ValidationReturned == validation \in { "0", "1" }

\* C30: main of validate_services returns only after all eight service
\* checks were made, whatever the earlier ones returned, and it returns 0
\* if and only if every one of the eight returned True, otherwise 1;
\* validate_deployment returns True if and only if that result is 0 and no
\* exception was raised.
C30_AllChecksMadeAndSummarised ==
  /\ ValidationReturned =>
       /\ Len(results) = 8
       /\ Len(results) = Len(ServiceChecks)
       /\ validation = "0" <=> \A i \in 1..Len(results) : results[i]
  /\ validate_pc = "done" =>
       /\ deployment_valid \in { "True", "False" }
       /\ deployment_valid = "True" <=> validation = "0"
       /\ validation = "Exception" => deployment_valid = "False"

\* the first check failed, the seven others were made all the same, and
\* validate_deployment has returned False
C30_Witness ==
  /\ validate_pc = "done"
  /\ Len(results) = 8
  /\ ~results[1]
  /\ \A i \in 2..8 : results[i]
  /\ validation = "1"
  /\ deployment_valid = "False"

(***************************************************************************)
(* manage_mlflow_users.py: MLflowUserManager (18-257).  The object is      *)
(* constructed with client = None (29); its methods are called in any      *)
(* order.  The vendor client is the object get_app_client returns; what    *)
(* the MLflow server answers to a call is not decided by this code.        *)
(***************************************************************************)
\* the number of method calls made on one manager
MaxCalls == 3

\* the methods that manage users and permissions (44-257)
ManagementOperations == {
  "change_admin_password", "create_user", "delete_user", "promote_user",
  "demote_user", "list_users", "grant_experiment_permission",
  "grant_model_permission", "revoke_experiment_permission",
  "revoke_model_permission" }

\* valid_permissions (178, 205) and a level that is not among them
valid_permissions == { "READ", "EDIT", "MANAGE" }
Permissions == valid_permissions \cup { "ADMIN" }

\* passwords given to authenticate
Credentials == { "change_me_on_first_login_123!", "s3cure-Passw0rd" }

Call(op, arg, raised) == [op |-> op, arg |-> arg, raised |-> raised]

\* MLflowUserManager() has been constructed (21-29)
ManagerInit ==
  /\ env_example = NoFile
  /\ env = NoFile
  /\ rng = << 0 >>
  /\ rng_pos = 0
  /\ call = << >>
  /\ pc = "idle"
  /\ lines = << >>
  /\ postgres_passwords = << >>
  /\ processed_lines = << >>
  /\ returned = "None"
  /\ env_before = NoFile
  /\ invocations = 0
  /\ run_start = 0
  /\ previous_run = NoRun
  /\ writers = NoWriters
  /\ ScriptsIdle

\* what a method of the manager leaves alone
ManagerFrame ==
  UNCHANGED << env_vars, writers, main_vars, validate_vars, setup_vars >>

\* `if not self.client: raise ValueError(...)`: the first statement of every
\* management method
raise_not_authenticated(op) ==
  /\ client = "None"
  /\ calls' = Append(calls, Call(op, "", "ValueError"))
  /\ UNCHANGED << client, vendor_calls >>

\* one call on the vendor client inside try / except Exception: an error of
\* the call is printed and the method returns
vendor_call_caught(op, method) ==
  /\ client # "None"
  /\ vendor_calls' = Append(vendor_calls, method)
  /\ calls' = Append(calls, Call(op, "", "None"))
  /\ UNCHANGED client

\* lines 31-42: the credentials go to os.environ, the client is replaced by
\* what get_app_client returns; if that raises, the client stays what it was
Authenticate ==
  /\ Len(calls) < MaxCalls
  /\ \E password \in Credentials :
       \/ /\ client' = "AuthServiceClient"
          /\ calls' = Append(calls, Call("authenticate", password, "None"))
       \/ /\ client' = client
          /\ calls' = Append(calls, Call("authenticate", password, "Exception"))
  /\ UNCHANGED vendor_calls
  /\ ManagerFrame

\* lines 44-59: no try, an error of update_user_password leaves the method
ChangeAdminPassword ==
  /\ Len(calls) < MaxCalls
  /\ \/ raise_not_authenticated("change_admin_password")
     \/ /\ client # "None"
        /\ vendor_calls' = Append(vendor_calls, "update_user_password")
        /\ \E raised \in { "None", "Exception" } :
             calls' = Append(calls, Call("change_admin_password", "", raised))
        /\ UNCHANGED client
  /\ ManagerFrame

\* lines 61-76
CreateUser ==
  /\ Len(calls) < MaxCalls
  /\ \/ raise_not_authenticated("create_user")
     \/ vendor_call_caught("create_user", "create_user")
  /\ ManagerFrame

\* a variant of DeleteUser: the test of self.client is missing
DeleteUser_unguarded ==
  /\ Len(calls) < MaxCalls
  /\ vendor_calls' = Append(vendor_calls, "delete_user")
  /\ calls' = Append(calls, Call("delete_user", "", "None"))
  /\ UNCHANGED client
  /\ ManagerFrame

\* lines 78-92
DeleteUser ==
  /\ Len(calls) < MaxCalls
  /\ \/ raise_not_authenticated("delete_user")
     \/ vendor_call_caught("delete_user", "delete_user")
  /\ ManagerFrame

\* lines 94-108
PromoteUser ==
  /\ Len(calls) < MaxCalls
  /\ \/ raise_not_authenticated("promote_user")
     \/ vendor_call_caught("promote_user", "update_user_admin")
  /\ ManagerFrame

\* lines 110-124
DemoteUser ==
  /\ Len(calls) < MaxCalls
  /\ \/ raise_not_authenticated("demote_user")
     \/ vendor_call_caught("demote_user", "update_user_admin")
  /\ ManagerFrame

\* lines 126-163: get_user(); after a TypeError get_user(username=...) is
\* tried; every error is printed
ListUsers ==
  /\ Len(calls) < MaxCalls
  /\ \/ raise_not_authenticated("list_users")
     \/ /\ client # "None"
        /\ \E type_error \in BOOLEAN :
             vendor_calls' = vendor_calls \o << "get_user" >>
                               \o (IF type_error THEN << "get_user" >> ELSE << >>)
        /\ calls' = Append(calls, Call("list_users", "", "None"))
        /\ UNCHANGED client
  /\ ManagerFrame

\* lines 165-190 and 192-217: the permission level is tested after the
\* client, an invalid level raises ValueError before any vendor call
grant_permission(op, method) ==
  \/ raise_not_authenticated(op)
  \/ /\ client # "None"
     /\ \E permission \in Permissions :
          IF permission \in valid_permissions
          THEN /\ vendor_calls' = Append(vendor_calls, method)
               /\ calls' = Append(calls, Call(op, permission, "None"))
          ELSE /\ vendor_calls' = vendor_calls
               /\ calls' = Append(calls, Call(op, permission, "ValueError"))
     /\ UNCHANGED client

GrantExperimentPermission ==
  /\ Len(calls) < MaxCalls
  /\ grant_permission("grant_experiment_permission", "create_experiment_permission")
  /\ ManagerFrame

GrantModelPermission ==
  /\ Len(calls) < MaxCalls
  /\ grant_permission("grant_model_permission", "create_registered_model_permission")
  /\ ManagerFrame

\* lines 219-237
RevokeExperimentPermission ==
  /\ Len(calls) < MaxCalls
  /\ \/ raise_not_authenticated("revoke_experiment_permission")
     \/ vendor_call_caught("revoke_experiment_permission",
                           "delete_experiment_permission")
  /\ ManagerFrame

\* lines 239-257
RevokeModelPermission ==
  /\ Len(calls) < MaxCalls
  /\ \/ raise_not_authenticated("revoke_model_permission")
     \/ vendor_call_caught("revoke_model_permission",
                           "delete_registered_model_permission")
  /\ ManagerFrame

ManagerNext ==
  \/ Authenticate
  \/ ChangeAdminPassword
  \/ CreateUser
  \/ DeleteUser
  \/ PromoteUser
  \/ DemoteUser
  \/ ListUsers
  \/ GrantExperimentPermission
  \/ GrantModelPermission
  \/ RevokeExperimentPermission
  \/ RevokeModelPermission

ManagerSpec == ManagerInit /\ [][ManagerNext]_vars

\* a call of authenticate that returned
IsAuthentication(c) == c.op = "authenticate" /\ c.raised = "None"

\* the i-th call was made before any authenticate had returned
BeforeAuthentication(i) == \A j \in 1..(i - 1) : ~IsAuthentication(calls[j])

(***************************************************************************)
(* C28.                                                                    *)
(***************************************************************************)
\* C28: in any sequence of calls on an MLflowUserManager, every management
\* operation invoked before a successful authenticate raises ValueError and
\* makes no call on the vendor client; the client becomes non-null only
\* through authenticate and is never reset to null afterwards.
C28_NoManagementBeforeAuthentication ==
  /\ [](\A i \in 1..Len(calls) :
          (calls[i].op \in ManagementOperations /\ BeforeAuthentication(i))
            => calls[i].raised = "ValueError")
  /\ []((\A i \in 1..Len(calls) : ~IsAuthentication(calls[i]))
          => (vendor_calls = << >> /\ client = "None"))
  /\ [][ /\ client # "None" => client' # "None"
         /\ (client = "None" /\ client' # "None")
              => IsAuthentication(calls'[Len(calls')]) ]_vars

\* three management operations were tried on a manager that never
\* authenticated: each raised ValueError, the vendor client was not called
C28_Witness ==
  /\ Len(calls) = 3
  /\ \A i \in 1..Len(calls) :
       calls[i].op \in ManagementOperations /\ calls[i].raised = "ValueError"
  /\ vendor_calls = << >>
  /\ client = "None"

(***************************************************************************)
(* setup_mlflow_auth.py: main (18-109), the workflow run once against a    *)
(* fresh MLflow server.  It drives one MLflowUserManager.  The server      *)
(* accepts update_user_password only from a client whose credentials are   *)
(* the admin password in force.  sys.exit(1) inside the try block raises   *)
(* SystemExit, which neither except clause (104, 107) catches.             *)
(***************************************************************************)
\* the number of users the operator asks for at the prompts of 70-82
MaxUsers == 2

\* what the operator types at a password prompt
TypedPasswords == {
  "short",
  "       x",
  "s3cure-Passw0rd2",
  "s3cure-Passw0rd2 ",
  " 0ther-Passw0rd" }

Usernames == { "alice", "bob" }

\* the users the operator can ask for
UserLists ==
  UNION { [1..n -> [username : Usernames, is_admin : BOOLEAN]] : n \in 0..MaxUsers }

NoEntries ==
  [new_password |-> "", confirm_password |-> "", create_users |-> "",
   users_to_create |-> << >>]

\* new_password = input(...).strip()                            (44, 50)
new_password == strip(entered.new_password)
confirm_password == strip(entered.confirm_password)

\* the password of the credentials the vendor client sends: what the last
\* call of authenticate put into os.environ (manage_mlflow_users.py 39-40)
RECURSIVE tracking_password(_)
tracking_password(cs) ==
  IF cs = << >> THEN ""
  ELSE IF cs[Len(cs)].op = "authenticate" THEN cs[Len(cs)].arg
  ELSE tracking_password(SubSeq(cs, 1, Len(cs) - 1))

\* the script has been started: the manager is constructed (34), the
\* server holds an admin password
SetupInit ==
  /\ env_example = NoFile
  /\ env = NoFile
  /\ rng = << 0 >>
  /\ rng_pos = 0
  /\ call = << >>
  /\ pc = "idle"
  /\ lines = << >>
  /\ postgres_passwords = << >>
  /\ processed_lines = << >>
  /\ returned = "None"
  /\ env_before = NoFile
  /\ invocations = 0
  /\ run_start = 0
  /\ previous_run = NoRun
  /\ writers = NoWriters
  /\ argv = << >>
  /\ main_pc = "idle"
  /\ steps = << >>
  /\ commands = << >>
  /\ exit_code = "None"
  /\ validate_pc = "idle"
  /\ results = << >>
  /\ validation = "None"
  /\ deployment_valid = "None"
  /\ client = "None"
  /\ calls = << >>
  /\ vendor_calls = << >>
  /\ setup_pc = "authenticate"
  /\ entered = NoEntries
  /\ admin_passwords \in { << password >> : password \in Credentials }

\* what a step of the workflow leaves alone
SetupFrame ==
  UNCHANGED << env_vars, writers, argv, main_pc, steps, commands, validate_vars >>

\* lines 107-109 and the sys.exit(1) of 48 and 54
exit_1 == setup_pc' = "exited" /\ exit_code' = "1"

\* line 39: authenticate with the password of MLFLOW_ADMIN_PASSWORD or the
\* default of line 27; an exception of get_app_client ends the script
SetupAuthenticate ==
  /\ setup_pc = "authenticate"
  /\ \E default_password \in Credentials :
       \/ /\ client' = "AuthServiceClient"
          /\ calls' = Append(calls, Call("authenticate", default_password, "None"))
          /\ setup_pc' = "new_password"
          /\ UNCHANGED exit_code
       \/ /\ client' = client
          /\ calls' = Append(calls, Call("authenticate", default_password, "Exception"))
          /\ exit_1
  /\ UNCHANGED << vendor_calls, entered, admin_passwords >>
  /\ SetupFrame

\* lines 44-48
EnterNewPassword ==
  /\ setup_pc = "new_password"
  /\ \E typed \in TypedPasswords :
       /\ entered' = [entered EXCEPT !.new_password = typed]
       /\ IF Len(strip(typed)) < 8
          THEN exit_1
          ELSE setup_pc' = "confirm_password" /\ UNCHANGED exit_code
  /\ UNCHANGED << client, calls, vendor_calls, admin_passwords >>
  /\ SetupFrame

\* a variant of EnterConfirmation: the confirmation is not compared
EnterConfirmation_unchecked ==
  /\ setup_pc = "confirm_password"
  /\ \E typed \in TypedPasswords :
       /\ entered' = [entered EXCEPT !.confirm_password = typed]
       /\ setup_pc' = "change_admin_password"
       /\ UNCHANGED exit_code
  /\ UNCHANGED << client, calls, vendor_calls, admin_passwords >>
  /\ SetupFrame

\* lines 50-54
EnterConfirmation ==
  /\ setup_pc = "confirm_password"
  /\ \E typed \in TypedPasswords :
       /\ entered' = [entered EXCEPT !.confirm_password = typed]
       /\ IF new_password # strip(typed)
          THEN exit_1
          ELSE setup_pc' = "change_admin_password" /\ UNCHANGED exit_code
  /\ UNCHANGED << client, calls, vendor_calls, admin_passwords >>
  /\ SetupFrame

\* line 56 with manage_mlflow_users.py 44-59: update_user_password is sent
\* with the credentials of line 39; the server takes the new password if
\* they are in force, otherwise (or when the request fails) the exception
\* leaves change_admin_password and ends the script at 107-109
SetupChangeAdminPassword ==
  /\ setup_pc = "change_admin_password"
  /\ IF client = "None"
     THEN /\ calls' = Append(calls, Call("change_admin_password", new_password,
                                         "ValueError"))
          /\ exit_1
          /\ UNCHANGED << vendor_calls, admin_passwords >>
     ELSE /\ vendor_calls' = Append(vendor_calls, "update_user_password")
          /\ \/ /\ tracking_password(calls) = admin_passwords[Len(admin_passwords)]
                /\ admin_passwords' = Append(admin_passwords, new_password)
                /\ calls' = Append(calls, Call("change_admin_password",
                                               new_password, "None"))
                /\ setup_pc' = "reauthenticate"
                /\ UNCHANGED exit_code
             \/ /\ calls' = Append(calls, Call("change_admin_password",
                                               new_password, "Exception"))
                /\ exit_1
                /\ UNCHANGED admin_passwords
  /\ UNCHANGED << client, entered >>
  /\ SetupFrame

\* line 60: authenticate with the new password
Reauthenticate ==
  /\ setup_pc = "reauthenticate"
  /\ \/ /\ client' = "AuthServiceClient"
        /\ calls' = Append(calls, Call("authenticate", new_password, "None"))
        /\ setup_pc' = "create_users"
        /\ UNCHANGED exit_code
     \/ /\ client' = client
        /\ calls' = Append(calls, Call("authenticate", new_password, "Exception"))
        /\ exit_1
  /\ UNCHANGED << vendor_calls, entered, admin_passwords >>
  /\ SetupFrame

\* lines 65-82: the operator declines, or names the users to create
AskCreateUsers ==
  /\ setup_pc = "create_users"
  /\ \/ entered' = [entered EXCEPT !.create_users = "n"]
     \/ \E users \in UserLists :
          entered' = [entered EXCEPT !.create_users = "y", !.users_to_create = users]
  /\ setup_pc' = "for_user"
  /\ UNCHANGED << client, calls, vendor_calls, admin_passwords, exit_code >>
  /\ SetupFrame

\* one iteration of the loop 85-88: create_user, and promote_user for an
\* admin; both print the errors of the server and return
CreateNextUser ==
  /\ setup_pc = "for_user"
  /\ entered.users_to_create # << >>
  /\ \E user \in { Head(entered.users_to_create) } :
       /\ calls' = calls \o << Call("create_user", user.username, "None") >>
                     \o (IF user.is_admin
                         THEN << Call("promote_user", user.username, "None") >>
                         ELSE << >>)
       /\ vendor_calls' = vendor_calls \o << "create_user" >>
                            \o (IF user.is_admin THEN << "update_user_admin" >>
                                ELSE << >>)
  /\ entered' = [entered EXCEPT !.users_to_create = Tail(@)]
  /\ UNCHANGED << client, admin_passwords, setup_pc, exit_code >>
  /\ SetupFrame

\* lines 91-102: the users are listed and main returns
SetupComplete ==
  /\ setup_pc = "for_user"
  /\ entered.users_to_create = << >>
  /\ calls' = Append(calls, Call("list_users", "", "None"))
  /\ vendor_calls' = Append(vendor_calls, "get_user")
  /\ setup_pc' = "exited"
  /\ exit_code' = "0"
  /\ UNCHANGED << client, entered, admin_passwords >>
  /\ SetupFrame

\* lines 104-106: Ctrl-C at one of the prompts
SetupInterrupted ==
  /\ setup_pc \in { "new_password", "confirm_password", "create_users" }
  /\ exit_1
  /\ UNCHANGED << client, calls, vendor_calls, entered, admin_passwords >>
  /\ SetupFrame

SetupNext ==
  \/ SetupAuthenticate
  \/ EnterNewPassword
  \/ EnterConfirmation
  \/ SetupChangeAdminPassword
  \/ Reauthenticate
  \/ AskCreateUsers
  \/ CreateNextUser
  \/ SetupComplete
  \/ SetupInterrupted

SetupSpec == SetupInit /\ [][SetupNext]_vars

\* the position of the call of change_admin_password, 0 if there is none
ChangeCall ==
  IF \E i \in 1..Len(calls) : calls[i].op = "change_admin_password"
  THEN CHOOSE i \in 1..Len(calls) : calls[i].op = "change_admin_password"
  ELSE 0

(***************************************************************************)
(* C29.                                                                    *)
(***************************************************************************)
\* C29 as stated: change_admin_password is called only after the
\* authentication with the current credentials succeeded and only if the
\* entered password has at least 8 characters and equals its confirmation,
\* otherwise the process exits with code 1 leaving the admin password
\* unchanged; user creation and promotion happen only after the
\* re-authentication with the new password.
C29_EnteredPasswordChangeGuarded ==
  /\ ChangeCall # 0 =>
       /\ ChangeCall = 2
       /\ IsAuthentication(calls[1])
       /\ Len(entered.new_password) >= 8
       /\ entered.new_password = entered.confirm_password
  /\ (setup_pc = "exited" /\ ChangeCall = 0) =>
       (exit_code = "1" /\ Len(admin_passwords) = 1)
  /\ \A i \in 1..Len(calls) :
       calls[i].op \in { "create_user", "promote_user" } =>
         (i > 3 /\ IsAuthentication(calls[3]))

\* C29: in the setup workflow change_admin_password is called only after
\* the authentication with the current credentials has returned, and only
\* if the password read at the prompt (the typed text without surrounding
\* whitespace) has at least 8 characters and equals the confirmation read
\* the same way; otherwise the process exits with code 1 and the admin
\* password of the server is unchanged; create_user and promote_user are
\* called only after the re-authentication with the new password.
C29_PasswordChangeGuarded ==
  /\ ChangeCall # 0 =>
       /\ ChangeCall = 2
       /\ IsAuthentication(calls[1])
       /\ Len(new_password) >= 8
       /\ new_password = confirm_password
       /\ calls[ChangeCall].arg = new_password
  /\ (setup_pc = "exited" /\ ChangeCall = 0) =>
       (exit_code = "1" /\ Len(admin_passwords) = 1)
  /\ Len(admin_passwords) > 1 =>
       /\ ChangeCall # 0
       /\ calls[ChangeCall].raised = "None"
       /\ admin_passwords = << calls[1].arg, new_password >>
  /\ \A i \in 1..Len(calls) :
       calls[i].op \in { "create_user", "promote_user" } =>
         /\ i > 3
         /\ calls[2] = Call("change_admin_password", new_password, "None")
         /\ calls[3] = Call("authenticate", new_password, "None")

\* the operator typed a password with a trailing blank and confirmed it
\* without; the password was changed and an admin user was created after
\* the re-authentication
C29_Witness ==
  /\ setup_pc = "exited"
  /\ exit_code = "0"
  /\ entered.new_password # entered.confirm_password
  /\ ChangeCall = 2
  /\ Len(admin_passwords) = 2
  /\ \E i \in 4..Len(calls) : calls[i].op = "promote_user"

====
